---- MODULE Spec2Model ----
(***************************************************************************)
(* Model of packages/planet-renderer-c: the worker thread pool             *)
(* (thread_pool.c), the per-face LOD quadtree (quadtree.c,                  *)
(* cubic_quadtree.c) and the per-frame chunk streaming of the planet        *)
(* (planet.c, chunk.c).                                                     *)
(*                                                                         *)
(* Several state machines share the module; each specification drives one  *)
(* of them and leaves the variables of the others at their initial value:  *)
(*   SpecPool / SpecPoolFair   thread_pool.c                                *)
(*   SpecWaiters / SpecWaitersFair  several callers of ThreadPool_WaitAll   *)
(*   SpecCreate                ThreadPool_Create, thread by thread          *)
(*   SpecTree                  quadtree.c                                   *)
(*   SpecChunk                 chunk.c (the chunk API on chunk objects)     *)
(*   SpecPlanet                planet.c, chunk.c, cubic_quadtree.c          *)
(*   SpecLeaves                leaf enumeration of quadtree.c and           *)
(*                             cubic_quadtree.c                             *)
(*   SpecUtils                 chunk_utils.c (ChunkMap, ChunkPool)          *)
(*   SpecMaps                  chunk_map.c (the string-keyed map)           *)
(*   SpecSkirt                 chunk.c (the vertex grid and FixEdgeSkirts)  *)
(***************************************************************************)
EXTENDS Integers, Sequences, FiniteSets, TLC

VARIABLES
    \* ---- struct ThreadPool (thread_pool.h) and its threads ----
    workQueueHead,   \* WorkItem* : first queued item, NULL when empty
    workQueueTail,   \* WorkItem* : last queued item, NULL when empty
    itemNext,        \* WorkItem.next of every allocated (not yet freed) item
    queueSize,       \* int
    shutdown,        \* bool
    activeThreads,   \* int
    queueMutex,      \* owner of the mutex: a thread id, or MutexFree
    wpc,             \* position of every worker in ThreadPool_WorkerThread
    witem,           \* the local "item" of every worker
    mpc,             \* position of the calling (main) thread
    mitem,           \* the local "item" of ThreadPool_Enqueue
    nextItem,        \* the next WorkItem malloc returns
    executed,        \* bag of job executions: item -> number of times run
    discarded,       \* items freed unexecuted by ThreadPool_Destroy
    xpc,             \* position of every further thread that calls ThreadPool_WaitAll
    created,         \* the workers pthread_create has started (threads[i] is set)
    joined,          \* the workers whose threads[i] was passed to pthread_join
    queuedAtShutdown,\* the items queued when shutdown was set (observation only)
    \* ---- Quadtree (quadtree.c) ----
    tree,            \* the Quadtree under construction/insert, or NoTree
    lastCamera,      \* cameraPosition of the latest Quadtree_Insert on it
    prevIds,         \* <<faceId, min.x, min.y, size.x, id>> of the nodes of the tree
                     \* constructed before this one
    \* ---- Chunk objects (chunk.c) ----
    heap,            \* the allocated Chunk structs: chunk pointer -> struct Chunk
    nextChunk,       \* the next Chunk malloc returns (pointers are never reused)
    lastCall,        \* the latest direct call of the chunk API (observation only)
    \* ---- struct Planet (planet.h) ----
    chunkMap,        \* ChunkMapEntry chunkMap[MAX_CHUNKS]: key, chunk, active
    chunkCount,      \* int
    \* ---- what the latest Planet_Update did (observation only) ----
    frame,           \* the leaf keys, the map before, the chunks created and destroyed
    teardown,        \* what Planet_Destroy did (observation only)
    \* ---- leaf enumeration (quadtree.c, cubic_quadtree.c) ----
    scan,            \* a Quadtree_GetLeafNodes call under way: outNodes, outCount, capacity
    cube,            \* a CubicQuadTree_GetLeafNodes call under way, face by face
    \* ---- ChunkMap and ChunkPool (chunk_utils.c) ----
    cmap,            \* struct ChunkMap: capacity, count, buckets (chains of entries)
    cmapRef,         \* the finite map the ChunkMap stands for (observation only)
    mapCall,         \* the latest ChunkMap call and what it returned (observation only)
    cpool,           \* struct ChunkPool: capacity, count, chunks
    poolRef,         \* the chunks released and not yet acquired, oldest first (observation only)
    poolCall,        \* the latest ChunkPool call and what it returned (observation only)
    \* ---- string-keyed ChunkMap (chunk_map.c) and the skirt step (chunk.c) ----
    smaps,           \* two maps and the results of Intersection and Difference on them
    skirt            \* a FixEdgeSkirts call under way: the grid and the accesses made

poolVars == <<workQueueHead, workQueueTail, itemNext, queueSize, shutdown,
              activeThreads, queueMutex, wpc, witem, mpc, mitem, nextItem,
              executed, discarded, xpc, created, joined, queuedAtShutdown>>

treeVars == <<tree, lastCamera, prevIds>>

chunkVars == <<heap, nextChunk, lastCall>>

planetVars == <<chunkMap, chunkCount, frame, teardown>>

leafVars == <<scan, cube>>

utilVars == <<cmap, cmapRef, mapCall, cpool, poolRef, poolCall>>

pureVars == <<smaps, skirt>>

vars == <<poolVars, treeVars, chunkVars, planetVars, leafVars, utilVars, pureVars>>

NULL == 0

(***************************************************************************)
(* Bounds of the model.                                                    *)
(***************************************************************************)
\* worker threads of the pool (threadCount of ThreadPool_Create)
NumWorkers == 2
\* jobs the main thread enqueues over the pool's life
MaxJobs == 3
\* threads other than the main thread that call ThreadPool_WaitAll
NumWaiters == 1
\* Chunk structs allocated over a run
MaxChunkIds == 3
\* Planet_Update is called while fewer than this many chunks were allocated
MaxAllocated == 16

(***************************************************************************)
(*                          thread_pool.c                                  *)
(***************************************************************************)
Workers == 1..NumWorkers
MainThread == 0
MutexFree == -1
Items == 1..MaxJobs
\* the further threads that call ThreadPool_WaitAll, next to the main thread
Waiters == (NumWorkers + 1)..(NumWorkers + NumWaiters)

\* Number of jobs enqueued so far.
Enqueued == nextItem - 1

\* Total number of job executions (the atomic counter of the test scenario).
RECURSIVE SumExecuted(_)
SumExecuted(n) == IF n = 0 THEN 0 ELSE executed[n] + SumExecuted(n - 1)

\* Mutant of CondSignal: the signal wakes nobody.
CondSignal_Lost(pcs, waitLabel, wokenLabel) == {pcs}

\* pthread_cond_signal: wakes one thread blocked on the condition, if any.
\* The result is the set of pc-functions the signal can produce.
CondSignal(pcs, waitLabel, wokenLabel) ==
    LET waiting == {t \in DOMAIN pcs : pcs[t] = waitLabel}
    IN  IF waiting = {} THEN {pcs}
        ELSE {[pcs EXCEPT ![t] = wokenLabel] : t \in waiting}

\* Mutant of CondBroadcast: only one of the blocked threads is woken.
CondBroadcast_One(pcs, waitLabel, wokenLabel) ==
    LET waiting == {t \in DOMAIN pcs : pcs[t] = waitLabel}
    IN  IF waiting = {} THEN pcs
        ELSE [pcs EXCEPT ![CHOOSE t \in waiting : TRUE] = wokenLabel]

\* pthread_cond_broadcast: wakes every thread blocked on the condition.
CondBroadcast(pcs, waitLabel, wokenLabel) ==
    [t \in DOMAIN pcs |-> IF pcs[t] = waitLabel THEN wokenLabel ELSE pcs[t]]

\* ThreadPool_Create: the pool after construction, all workers started.
InitPool ==
    /\ workQueueHead = NULL
    /\ workQueueTail = NULL
    /\ itemNext = <<>>
    /\ queueSize = 0
    /\ shutdown = FALSE
    /\ activeThreads = 0
    /\ queueMutex = MutexFree
    /\ wpc = [w \in Workers |-> "lock"]
    /\ witem = [w \in Workers |-> NULL]
    /\ mpc = "idle"
    /\ mitem = NULL
    /\ nextItem = 1
    /\ executed = [i \in Items |-> 0]
    /\ discarded = {}
    /\ xpc = [t \in Waiters |-> "idle"]
    /\ created = Workers
    /\ joined = {}
    /\ queuedAtShutdown = {}

\* ---- ThreadPool_WorkerThread ----

\* line 10, and the re-acquisition of the mutex when pthread_cond_wait returns
WorkerLock(w) ==
    /\ wpc[w] = "lock"
    /\ queueMutex = MutexFree
    /\ queueMutex' = w
    /\ wpc' = [wpc EXCEPT ![w] = "check"]
    /\ UNCHANGED <<workQueueHead, workQueueTail, itemNext, queueSize, shutdown,
                   activeThreads, witem, mpc, mitem, nextItem, executed, discarded>>
    /\ UNCHANGED <<xpc, created, joined, queuedAtShutdown>>

\* line 13: the condition of the wait loop
WorkerMustWait(head, down) == head = NULL /\ ~down

\* Mutant of WorkerMustExit: the worker leaves as soon as shutdown is set.
WorkerMustExit_Shutdown(head, down) == down

\* line 18: the exit test
WorkerMustExit(head, down) == down /\ head = NULL

\* Mutant of QueueAfterPop: the popped item stays linked as the head.
QueueAfterPop_Keep(next, head, tail) == [head |-> head, tail |-> tail]

\* Mutant of QueueAfterPop: the tail is not reset when the last item is popped.
QueueAfterPop_StaleTail(next, head, tail) == [head |-> next[head], tail |-> tail]

\* lines 26-29: head and tail of the queue once the head item is unlinked
QueueAfterPop(next, head, tail) ==
    [ head |-> next[head],
      tail |-> IF next[head] = NULL THEN NULL ELSE tail ]

\* Mutant of UnlockAfterPop: the worker keeps the mutex while it runs the job.
UnlockAfterPop_Held(w) == w

\* line 34: pthread_mutex_unlock before the job is executed
UnlockAfterPop(w) == MutexFree

\* lines 13-34 with the mutex held: wait, exit, or pop one item
WorkerCheck(w) ==
    /\ wpc[w] = "check"
    /\ queueMutex = w
    /\ queueMutex' = IF \/ WorkerMustWait(workQueueHead, shutdown)
                        \/ WorkerMustExit(workQueueHead, shutdown)
                     THEN MutexFree
                     ELSE UnlockAfterPop(w)
    /\ IF WorkerMustWait(workQueueHead, shutdown)
       THEN \* pthread_cond_wait(&workAvailable): release the mutex and block
            /\ wpc' = [wpc EXCEPT ![w] = "waitAvailable"]
            /\ UNCHANGED <<workQueueHead, workQueueTail, queueSize,
                           activeThreads, witem>>
       ELSE IF WorkerMustExit(workQueueHead, shutdown)
       THEN /\ wpc' = [wpc EXCEPT ![w] = "exited"]
            /\ UNCHANGED <<workQueueHead, workQueueTail, queueSize,
                           activeThreads, witem>>
       ELSE LET item == workQueueHead
            IN  /\ witem' = [witem EXCEPT ![w] = item]
                /\ IF item # NULL
                   THEN /\ workQueueHead' =
                               QueueAfterPop(itemNext, workQueueHead, workQueueTail).head
                        /\ workQueueTail' =
                               QueueAfterPop(itemNext, workQueueHead, workQueueTail).tail
                        /\ queueSize' = queueSize - 1
                        /\ activeThreads' = activeThreads + 1
                        /\ wpc' = [wpc EXCEPT ![w] = "run"]
                   ELSE /\ UNCHANGED <<workQueueHead, workQueueTail, queueSize,
                                       activeThreads>>
                        /\ wpc' = [wpc EXCEPT ![w] = "lock"]
    /\ UNCHANGED <<itemNext, shutdown, mpc, mitem, nextItem, executed, discarded>>
    /\ UNCHANGED <<xpc, created, joined, queuedAtShutdown>>

\* A spurious wake-up of pthread_cond_wait(&workAvailable), which POSIX allows.
WorkerSpuriousWake(w) ==
    /\ wpc[w] = "waitAvailable"
    /\ wpc' = [wpc EXCEPT ![w] = "lock"]
    /\ UNCHANGED <<workQueueHead, workQueueTail, itemNext, queueSize, shutdown,
                   activeThreads, queueMutex, witem, mpc, mitem, nextItem,
                   executed, discarded>>
    /\ UNCHANGED <<xpc, created, joined, queuedAtShutdown>>

\* lines 38-39: item->function(item->data); free(item), outside the lock
WorkerRun(w) ==
    /\ wpc[w] = "run"
    /\ executed' = [executed EXCEPT ![witem[w]] = @ + 1]
    /\ itemNext' = [i \in DOMAIN itemNext \ {witem[w]} |-> itemNext[i]]
    /\ wpc' = [wpc EXCEPT ![w] = "doneLock"]
    /\ UNCHANGED <<workQueueHead, workQueueTail, queueSize, shutdown,
                   activeThreads, queueMutex, witem, mpc, mitem, nextItem,
                   discarded>>
    /\ UNCHANGED <<xpc, created, joined, queuedAtShutdown>>

\* line 42
WorkerDoneLock(w) ==
    /\ wpc[w] = "doneLock"
    /\ queueMutex = MutexFree
    /\ queueMutex' = w
    /\ wpc' = [wpc EXCEPT ![w] = "done"]
    /\ UNCHANGED <<workQueueHead, workQueueTail, itemNext, queueSize, shutdown,
                   activeThreads, witem, mpc, mitem, nextItem, executed, discarded>>
    /\ UNCHANGED <<xpc, created, joined, queuedAtShutdown>>

\* The positions of the threads that call ThreadPool_WaitAll: the main
\* thread and the further callers.
CallerPcs == (MainThread :> mpc) @@ xpc

\* Mutant of WorkerSignalComplete: the worker forgets the signal.
WorkerSignalComplete_NoSignal(pcs) == {pcs}

\* line 44: pthread_cond_signal(&workComplete) wakes one of the threads that
\* are blocked in ThreadPool_WaitAll, if there is any; the result is the set
\* of positions the signal can leave the callers in
WorkerSignalComplete(pcs) == CondSignal(pcs, "waWait", "waLock")

\* lines 43-45
WorkerDone(w) ==
    /\ wpc[w] = "done"
    /\ queueMutex = w
    /\ activeThreads' = activeThreads - 1
    /\ \E pcs \in WorkerSignalComplete(CallerPcs) :
           /\ mpc' = pcs[MainThread]
           /\ xpc' = [t \in Waiters |-> pcs[t]]
    /\ queueMutex' = MutexFree
    /\ wpc' = [wpc EXCEPT ![w] = "lock"]
    /\ witem' = [witem EXCEPT ![w] = NULL]
    /\ UNCHANGED <<workQueueHead, workQueueTail, itemNext, queueSize, shutdown,
                   mitem, nextItem, executed, discarded>>
    /\ UNCHANGED <<created, joined, queuedAtShutdown>>

WorkerStep(w) ==
    \/ WorkerLock(w)
    \/ WorkerCheck(w)
    \/ WorkerRun(w)
    \/ WorkerDoneLock(w)
    \/ WorkerDone(w)

\* ---- ThreadPool_Enqueue ----

\* lines 84-89: allocate the item and take the mutex
EnqueueLock ==
    /\ mpc = "idle"
    /\ nextItem <= MaxJobs
    /\ queueMutex = MutexFree
    /\ queueMutex' = MainThread
    /\ mitem' = nextItem
    /\ nextItem' = nextItem + 1
    /\ itemNext' = [i \in DOMAIN itemNext \cup {nextItem} |->
                       IF i = nextItem THEN NULL ELSE itemNext[i]]
    /\ mpc' = "enqueue"
    /\ UNCHANGED <<workQueueHead, workQueueTail, queueSize, shutdown,
                   activeThreads, wpc, witem, executed, discarded>>
    /\ UNCHANGED <<xpc, created, joined, queuedAtShutdown>>

\* Mutant of EnqueueLink: the item is pushed in front of the queue.
EnqueueLink_Push(next, head, tail, item) ==
    [ next |-> [next EXCEPT ![item] = head],
      head |-> item,
      tail |-> IF tail = NULL THEN item ELSE tail ]

\* lines 92-97: link the item behind the tail
EnqueueLink(next, head, tail, item) ==
    [ next |-> IF tail # NULL THEN [next EXCEPT ![tail] = item] ELSE next,
      head |-> IF tail # NULL THEN head ELSE item,
      tail |-> item ]

\* lines 92-103: append, count, signal workAvailable, unlock
EnqueueAppend ==
    /\ mpc = "enqueue"
    /\ queueMutex = MainThread
    /\ itemNext' = EnqueueLink(itemNext, workQueueHead, workQueueTail, mitem).next
    /\ workQueueHead' = EnqueueLink(itemNext, workQueueHead, workQueueTail, mitem).head
    /\ workQueueTail' = EnqueueLink(itemNext, workQueueHead, workQueueTail, mitem).tail
    /\ queueSize' = queueSize + 1
    /\ wpc' \in CondSignal(wpc, "waitAvailable", "lock")
    /\ queueMutex' = MutexFree
    /\ mitem' = NULL
    /\ mpc' = "idle"
    /\ UNCHANGED <<shutdown, activeThreads, witem, nextItem, executed, discarded>>
    /\ UNCHANGED <<xpc, created, joined, queuedAtShutdown>>

\* ---- ThreadPool_WaitAll ----

\* line 107, and the re-acquisition of the mutex when pthread_cond_wait returns
WaitAllLock ==
    /\ mpc \in {"idle", "waLock"}
    /\ queueMutex = MutexFree
    /\ queueMutex' = MainThread
    /\ mpc' = "waCheck"
    /\ UNCHANGED <<workQueueHead, workQueueTail, itemNext, queueSize, shutdown,
                   activeThreads, wpc, witem, mitem, nextItem, executed, discarded>>
    /\ UNCHANGED <<xpc, created, joined, queuedAtShutdown>>

\* Mutant of WaitAllMustWait: the loop forgets the jobs still running.
WaitAllMustWait_QueueOnly(size, active) == size > 0

\* line 110: the condition of the wait loop
WaitAllMustWait(size, active) == size > 0 \/ active > 0

\* lines 110-114: wait on workComplete, or unlock and return
WaitAllCheck ==
    /\ mpc = "waCheck"
    /\ queueMutex = MainThread
    /\ queueMutex' = MutexFree
    /\ mpc' = IF WaitAllMustWait(queueSize, activeThreads) THEN "waWait"
              ELSE "waReturned"
    /\ UNCHANGED <<workQueueHead, workQueueTail, itemNext, queueSize, shutdown,
                   activeThreads, wpc, witem, mitem, nextItem, executed, discarded>>
    /\ UNCHANGED <<xpc, created, joined, queuedAtShutdown>>

\* A spurious wake-up of pthread_cond_wait(&workComplete).
WaitAllSpuriousWake ==
    /\ mpc = "waWait"
    /\ mpc' = "waLock"
    /\ UNCHANGED <<workQueueHead, workQueueTail, itemNext, queueSize, shutdown,
                   activeThreads, queueMutex, wpc, witem, mitem, nextItem,
                   executed, discarded>>
    /\ UNCHANGED <<xpc, created, joined, queuedAtShutdown>>

\* The caller goes on after ThreadPool_WaitAll has returned.
WaitAllReturn ==
    /\ mpc = "waReturned"
    /\ mpc' = "idle"
    /\ UNCHANGED <<workQueueHead, workQueueTail, itemNext, queueSize, shutdown,
                   activeThreads, queueMutex, wpc, witem, mitem, nextItem,
                   executed, discarded>>
    /\ UNCHANGED <<xpc, created, joined, queuedAtShutdown>>

\* ---- ThreadPool_Destroy ----

\* line 137; ThreadPool_Destroy is called by the owner of the pool, or by
\* ThreadPool_Create when pthread_create has failed (line 75)
DestroyLock ==
    /\ mpc \in {"idle", "createFailed"}
    /\ queueMutex = MutexFree
    /\ queueMutex' = MainThread
    /\ mpc' = "destroy"
    /\ UNCHANGED <<workQueueHead, workQueueTail, itemNext, queueSize, shutdown,
                   activeThreads, wpc, witem, mitem, nextItem, executed, discarded>>
    /\ UNCHANGED <<xpc, created, joined, queuedAtShutdown>>

\* The items still linked from workQueueHead.
RECURSIVE QueueItems(_, _)
QueueItems(next, head) ==
    IF head = NULL THEN {} ELSE {head} \cup QueueItems(next, next[head])

\* lines 138-140: set shutdown, broadcast workAvailable, unlock
DestroyShutdown ==
    /\ mpc = "destroy"
    /\ queueMutex = MainThread
    /\ shutdown' = TRUE
    /\ wpc' = CondBroadcast(wpc, "waitAvailable", "lock")
    /\ queueMutex' = MutexFree
    /\ mpc' = "join"
    /\ queuedAtShutdown' = QueueItems(itemNext, workQueueHead)
    /\ UNCHANGED <<workQueueHead, workQueueTail, itemNext, queueSize,
                   activeThreads, witem, mitem, nextItem, executed, discarded>>
    /\ UNCHANGED <<xpc, created, joined>>

\* lines 143-145: pthread_join is called on threads[i] for every
\* i < threadCount
JoinedThreads(started) == Workers

\* lines 143-160: join every worker, then free the items still queued.
\* pthread_join on an element of threads[] that pthread_create never set is
\* undefined: the call may return with an error, or the process may fault.
DestroyJoin ==
    /\ mpc = "join"
    /\ \A w \in created : wpc[w] = "exited"
    /\ joined' = JoinedThreads(created)
    /\ \/ /\ discarded' = QueueItems(itemNext, workQueueHead)
          /\ itemNext' = [i \in DOMAIN itemNext \ discarded' |-> itemNext[i]]
          /\ mpc' = "destroyed"
       \/ /\ ~(joined' \subseteq created)
          /\ mpc' = "crashed"
          /\ UNCHANGED <<discarded, itemNext>>
    /\ UNCHANGED <<workQueueHead, workQueueTail, queueSize, shutdown,
                   activeThreads, queueMutex, wpc, witem, mitem, nextItem,
                   executed>>
    /\ UNCHANGED <<xpc, created, queuedAtShutdown>>

MainWaitAllStep ==
    \/ WaitAllLock
    \/ WaitAllCheck
    \/ WaitAllReturn

\* ---- ThreadPool_WaitAll called by a further thread t ----

\* line 107, and the re-acquisition of the mutex when pthread_cond_wait returns
WaiterLock(t) ==
    /\ xpc[t] \in {"idle", "waLock"}
    /\ queueMutex = MutexFree
    /\ queueMutex' = t
    /\ xpc' = [xpc EXCEPT ![t] = "waCheck"]
    /\ UNCHANGED <<workQueueHead, workQueueTail, itemNext, queueSize, shutdown,
                   activeThreads, wpc, witem, mpc, mitem, nextItem, executed,
                   discarded, created, joined, queuedAtShutdown>>

\* lines 110-114: wait on workComplete, or unlock and return
WaiterCheck(t) ==
    /\ xpc[t] = "waCheck"
    /\ queueMutex = t
    /\ queueMutex' = MutexFree
    /\ xpc' = [xpc EXCEPT ![t] = IF WaitAllMustWait(queueSize, activeThreads)
                                 THEN "waWait" ELSE "waReturned"]
    /\ UNCHANGED <<workQueueHead, workQueueTail, itemNext, queueSize, shutdown,
                   activeThreads, wpc, witem, mpc, mitem, nextItem, executed,
                   discarded, created, joined, queuedAtShutdown>>

\* A spurious wake-up of pthread_cond_wait(&workComplete) in thread t.
WaiterSpuriousWake(t) ==
    /\ xpc[t] = "waWait"
    /\ xpc' = [xpc EXCEPT ![t] = "waLock"]
    /\ UNCHANGED <<workQueueHead, workQueueTail, itemNext, queueSize, shutdown,
                   activeThreads, queueMutex, wpc, witem, mpc, mitem, nextItem,
                   executed, discarded, created, joined, queuedAtShutdown>>

\* ---- ThreadPool_Create ----

\* The pool inside ThreadPool_Create, after line 68: no worker started yet.
InitPoolCreate ==
    /\ workQueueHead = NULL
    /\ workQueueTail = NULL
    /\ itemNext = <<>>
    /\ queueSize = 0
    /\ shutdown = FALSE
    /\ activeThreads = 0
    /\ queueMutex = MutexFree
    /\ wpc = [w \in Workers |-> "notCreated"]
    /\ witem = [w \in Workers |-> NULL]
    /\ mpc = "create"
    /\ mitem = NULL
    /\ nextItem = 1
    /\ executed = [i \in Items |-> 0]
    /\ discarded = {}
    /\ xpc = [t \in Waiters |-> "idle"]
    /\ created = {}
    /\ joined = {}
    /\ queuedAtShutdown = {}

\* threads[i] of the loop of line 71: the workers are started in order
NextThread(started) ==
    CHOOSE w \in Workers \ started : \A v \in Workers \ started : w <= v

\* lines 71-72 and 80: pthread_create succeeds; after the last one the pool
\* is returned
CreateThread ==
    /\ mpc = "create"
    /\ created # Workers
    /\ created' = created \cup {NextThread(created)}
    /\ wpc' = [wpc EXCEPT ![NextThread(created)] = "lock"]
    /\ mpc' = IF created' = Workers THEN "idle" ELSE "create"
    /\ UNCHANGED <<workQueueHead, workQueueTail, itemNext, queueSize, shutdown,
                   activeThreads, queueMutex, witem, mitem, nextItem, executed,
                   discarded, xpc, joined, queuedAtShutdown>>

\* lines 72-75: pthread_create fails; ThreadPool_Destroy(pool) is called and
\* NULL is returned once it is through
CreateFail ==
    /\ mpc = "create"
    /\ created # Workers
    /\ mpc' = "createFailed"
    /\ UNCHANGED <<workQueueHead, workQueueTail, itemNext, queueSize, shutdown,
                   activeThreads, queueMutex, wpc, witem, mitem, nextItem,
                   executed, discarded, xpc, created, joined, queuedAtShutdown>>

(***************************************************************************)
(*                             quadtree.c                                  *)
(*                                                                         *)
(* Coordinates are integers; every size and centre the model computes is   *)
(* an integer for the configurations it draws (TreeConfigs), so the float  *)
(* arithmetic of the code is exact on them.  The only irrational step,     *)
(* Vector3Normalize in CreateNode, is kept symbolic: a node stores the     *)
(* transformed centre ("world") and the distance test is decided exactly   *)
(* on squares (DistLess).  z of the face-local bounds is always 0.         *)
(***************************************************************************)

\* ---- 64-bit unsigned arithmetic on four 16-bit limbs, low limb first ----
Limb == 256 * 256

\* (hash << 5) + hash + v  modulo 2^64, v a 32-bit value <<lo, hi>>
RECURSIVE Mul33AddFrom(_, _, _, _)
Mul33AddFrom(h, v, i, carry) ==
    IF i > 4 THEN <<>>
    ELSE LET t == h[i] * 33 + (IF i <= 2 THEN v[i] ELSE 0) + carry
         IN  <<t % Limb>> \o Mul33AddFrom(h, v, i + 1, t \div Limb)

Mul33Add(h, v) == Mul33AddFrom(h, v, 1, 0)

\* floor(log2 a), a >= 1
RECURSIVE Log2(_)
Log2(a) == IF a <= 1 THEN 0 ELSE 1 + Log2(a \div 2)

RECURSIVE Pow2(_)
Pow2(n) == IF n = 0 THEN 1 ELSE 2 * Pow2(n - 1)

\* *(unsigned int*)&x for a float x holding an integer, |x| < 2^24:
\* sign, biased exponent and 23-bit mantissa, as <<low 16 bits, high 16 bits>>
FloatBits(x) ==
    IF x = 0 THEN <<0, 0>>
    ELSE LET a == IF x < 0 THEN -x ELSE x
             e == Log2(a)
             mant == (a - Pow2(e)) * Pow2(23 - e)
             sign == IF x < 0 THEN 1 ELSE 0
         IN  << mant % Limb,
                sign * 32768 + (e + 127) * 128 + mant \div Limb >>

\* HashChunkKey: DJB2 over faceId and the raw bits of x, y and size
HashChunkKey(faceId, x, y, size) ==
    LET h0 == <<5381, 0, 0, 0>>
        h1 == Mul33Add(h0, <<faceId, 0>>)
        h2 == Mul33Add(h1, FloatBits(x))
        h3 == Mul33Add(h2, FloatBits(y))
    IN  Mul33Add(h3, FloatBits(size))

\* ---- geometry ----

\* Vector3Transform(center, localToWorld) for the six face transforms of
\* CubicQuadTree_Create: rotate the face plane, then translate by the radius
FaceTransform(f, c, radius) ==
    CASE f = 0 -> << c[1], radius, -c[2] >>
      [] f = 1 -> << c[1], -radius, c[2] >>
      [] f = 2 -> << radius, c[2], -c[1] >>
      [] f = 3 -> << -radius, c[2], c[1] >>
      [] f = 4 -> << c[1], c[2], radius >>
      [] f = 5 -> << -c[1], c[2], -radius >>

Dot(a, b) == a[1] * b[1] + a[2] * b[2] + a[3] * b[3]

\* Vector3Distance(sphereCenter, cameraPos) < size * comparator, where
\* sphereCenter = normalize(world) * radius + origin and the comparator is the
\* fraction cmp[1] / cmp[2].  With Q = cameraPos - origin the squared distance
\* is radius^2 + |Q|^2 - 2 radius (world . Q) / |world|, compared exactly.
DistLess(world, radius, origin, cameraPos, size, cmp) ==
    LET Q == << cameraPos[1] - origin[1], cameraPos[2] - origin[2],
                cameraPos[3] - origin[3] >>
        A == cmp[2] * cmp[2] * (radius * radius + Dot(Q, Q))
                 - size * size * cmp[1] * cmp[1]
        B == 2 * radius * cmp[2] * cmp[2] * Dot(world, Q)
        W == Dot(world, world)
    IN  IF size * cmp[1] <= 0 THEN FALSE
        ELSE IF A < 0 /\ B >= 0 THEN TRUE
        ELSE IF A >= 0 /\ B <= 0 THEN FALSE
        ELSE IF A >= 0 THEN A * A * W < B * B
        ELSE A * A * W > B * B

\* BoundingBoxCenter, BoundingBoxSize (math_utils.c: Box3_GetCenter/GetSize)
BoundingBoxCenter(b) == << (b.min[1] + b.max[1]) \div 2, (b.min[2] + b.max[2]) \div 2 >>
BoundingBoxSize(b) == << b.max[1] - b.min[1], b.max[2] - b.min[2] >>

\* Mutant of NodeId: the planet radius is hashed in place of the node size.
NodeId_Radius(bounds, size, planetRadius, faceId) ==
    HashChunkKey(faceId, bounds.min[1], bounds.min[2], planetRadius)

\* line 42: the id of a node
NodeId(bounds, size, planetRadius, faceId) ==
    HashChunkKey(faceId, bounds.min[1], bounds.min[2], size[1])

\* CreateNode: a leaf with its derived centre, size, id and transformed centre
CreateNode(bounds, planetRadius, faceId) ==
    [ bounds |-> bounds,
      isLeaf |-> TRUE,
      faceId |-> faceId,
      center |-> BoundingBoxCenter(bounds),
      size   |-> BoundingBoxSize(bounds),
      id     |-> NodeId(bounds, BoundingBoxSize(bounds), planetRadius, faceId),
      world  |-> FaceTransform(faceId, BoundingBoxCenter(bounds), planetRadius) ]

\* Quadtree_Create: the tree record and its root over [-size, size]^2.
\* A tree is its parameters plus "nodes", a function from paths (sequences of
\* child indices 0..3 from the root) to nodes: children[i] of the node at
\* path p is the node at p \o <<i>>, and is NULL when that path is absent.
Quadtree_Create(size, minNodeSize, comparatorValue, origin, faceId) ==
    [ size |-> size,
      minNodeSize |-> minNodeSize,
      comparatorValue |-> comparatorValue,
      origin |-> origin,
      faceId |-> faceId,
      nodes |-> (<<>> :> CreateNode([min |-> <<-size, -size>>, max |-> <<size, size>>],
                                    size, faceId)) ]

\* Mutant of SplitCondition: a node at the floor is still split.
SplitCondition_AtFloor(node, cameraPos, minNodeSize, comparatorValue, planetRadius, planetOrigin) ==
    /\ DistLess(node.world, planetRadius, planetOrigin, cameraPos,
                node.size[1], comparatorValue)
    /\ node.size[1] >= minNodeSize

\* line 84: the split condition
SplitCondition(node, cameraPos, minNodeSize, comparatorValue, planetRadius, planetOrigin) ==
    /\ DistLess(node.world, planetRadius, planetOrigin, cameraPos,
                node.size[1], comparatorValue)
    /\ node.size[1] > minNodeSize

\* Mutant of ChildBounds: the bottom-right and top-left quadrants overlap the
\* bottom-left one (min is used where center belongs).
ChildBounds_FromMin(node) ==
    LET center == node.center
        min == node.bounds.min
        max == node.bounds.max
    IN  << [min |-> min, max |-> center],
           [min |-> min, max |-> <<max[1], center[2]>>],
           [min |-> min, max |-> <<center[1], max[2]>>],
           [min |-> center, max |-> max] >>

\* Mutant of ChildBounds: the top-right child is given the bottom-left
\* quadrant a second time.
ChildBounds_BottomLeftTwice(node) ==
    LET center == node.center
        min == node.bounds.min
        max == node.bounds.max
    IN  << [min |-> min, max |-> center],
           [min |-> <<center[1], min[2]>>, max |-> <<max[1], center[2]>>],
           [min |-> <<min[1], center[2]>>, max |-> <<center[1], max[2]>>],
           [min |-> min, max |-> center] >>

\* lines 92-115: the bounds of the four children, in the order of children[]
ChildBounds(node) ==
    LET center == node.center
        min == node.bounds.min
        max == node.bounds.max
    IN  << [min |-> min, max |-> center],
           [min |-> <<center[1], min[2]>>, max |-> <<max[1], center[2]>>],
           [min |-> <<min[1], center[2]>>, max |-> <<center[1], max[2]>>],
           [min |-> center, max |-> max] >>

\* Mutant of SplitNode: the split node is still marked as a leaf.
SplitNode_StaysLeaf(nodes, path, planetRadius) ==
    LET node == nodes[path]
        b == ChildBounds(node)
    IN  nodes @@ [p \in {Append(path, i) : i \in 0..3} |->
                     CreateNode(b[p[Len(p)] + 1], planetRadius, node.faceId)]

\* lines 86-116: split a leaf into its four children
SplitNode(nodes, path, planetRadius) ==
    LET node == nodes[path]
        b == ChildBounds(node)
    IN  [nodes EXCEPT ![path].isLeaf = FALSE]
            @@ [p \in {Append(path, i) : i \in 0..3} |->
                   CreateNode(b[p[Len(p)] + 1], planetRadius, node.faceId)]

\* Is path q strictly below path p?
Below(q, p) == Len(q) > Len(p) /\ SubSeq(q, 1, Len(p)) = p

\* Mutant of InsertRecursive: a node that fails the split condition is merged
\* (its subtree is dropped and it becomes a leaf again).
RECURSIVE InsertRecursive_Merge(_, _, _, _, _, _, _)
InsertRecursive_Merge(nodes, path, cameraPos, minNodeSize, comparatorValue, planetRadius, planetOrigin) ==
    IF SplitCondition(nodes[path], cameraPos, minNodeSize, comparatorValue,
                      planetRadius, planetOrigin)
    THEN LET n0 == IF nodes[path].isLeaf THEN SplitNode(nodes, path, planetRadius)
                   ELSE nodes
             n1 == InsertRecursive_Merge(n0, Append(path, 0), cameraPos, minNodeSize,
                                   comparatorValue, planetRadius, planetOrigin)
             n2 == InsertRecursive_Merge(n1, Append(path, 1), cameraPos, minNodeSize,
                                   comparatorValue, planetRadius, planetOrigin)
             n3 == InsertRecursive_Merge(n2, Append(path, 2), cameraPos, minNodeSize,
                                   comparatorValue, planetRadius, planetOrigin)
         IN  InsertRecursive_Merge(n3, Append(path, 3), cameraPos, minNodeSize,
                             comparatorValue, planetRadius, planetOrigin)
    ELSE [p \in {q \in DOMAIN nodes : ~Below(q, path)} |->
             IF p = path THEN [nodes[p] EXCEPT !.isLeaf = TRUE] ELSE nodes[p]]

\* InsertRecursive: the nodes of the tree after visiting the node at path.
\* The tree after each of the four recursive calls is the element of a
\* one-element set, so that it is computed once, before the next call.
RECURSIVE InsertRecursive(_, _, _, _, _, _, _)
InsertRecursive(nodes, path, cameraPos, minNodeSize, comparatorValue, planetRadius, planetOrigin) ==
    IF SplitCondition(nodes[path], cameraPos, minNodeSize, comparatorValue,
                      planetRadius, planetOrigin)
    THEN LET s0 == { IF nodes[path].isLeaf THEN SplitNode(nodes, path, planetRadius)
                     ELSE nodes }
             s1 == { InsertRecursive(n, Append(path, 0), cameraPos, minNodeSize,
                                     comparatorValue, planetRadius, planetOrigin) : n \in s0 }
             s2 == { InsertRecursive(n, Append(path, 1), cameraPos, minNodeSize,
                                     comparatorValue, planetRadius, planetOrigin) : n \in s1 }
             s3 == { InsertRecursive(n, Append(path, 2), cameraPos, minNodeSize,
                                     comparatorValue, planetRadius, planetOrigin) : n \in s2 }
             s4 == { InsertRecursive(n, Append(path, 3), cameraPos, minNodeSize,
                                     comparatorValue, planetRadius, planetOrigin) : n \in s3 }
         IN  CHOOSE n \in s4 : TRUE
    ELSE nodes

\* Quadtree_Insert (no onSplit callback)
Quadtree_Insert(t, cameraPosition) ==
    [t EXCEPT !.nodes = InsertRecursive(t.nodes, <<>>, cameraPosition, t.minNodeSize,
                                        t.comparatorValue, t.size, t.origin)]

\* GetLeafNodesRecursive: the leaves below path, depth first, as paths
RECURSIVE GetLeafNodesRecursive(_, _)
GetLeafNodesRecursive(nodes, path) ==
    IF nodes[path].isLeaf THEN << path >>
    ELSE GetLeafNodesRecursive(nodes, Append(path, 0))
            \o GetLeafNodesRecursive(nodes, Append(path, 1))
            \o GetLeafNodesRecursive(nodes, Append(path, 2))
            \o GetLeafNodesRecursive(nodes, Append(path, 3))

\* Quadtree_GetLeafNodes: the leaf nodes in the order the code returns them
Quadtree_GetLeafNodes(t) ==
    LET paths == GetLeafNodesRecursive(t.nodes, <<>>)
    IN  [i \in 1..Len(paths) |-> t.nodes[paths[i]]]

\* ---- the quadtree state machine ----

\* <<size, minNodeSize>> of the trees the model constructs (root size.x is
\* 2 * size); every node they can contain has an integer centre
TreeConfigs == { <<4, 2>>, <<4, 3>>, <<4, 4>>, <<4, 8>>, <<4, 9>>, <<8, 4>>, <<8, 5>> }
\* comparatorValue as <<numerator, denominator>>; Quadtree_Create takes any float
TreeComparators == { <<1, 1>>, <<2, 1>>, <<0, 1>>, <<-1, 1>> }
TreeFaces == {0, 4}
TreeOrigin == <<0, 0, 0>>
\* viewer positions: far away, near the +Z face, on the surface, near +Y
TreeViewers == { <<0, 0, 40>>, <<0, 0, 12>>, <<3, 3, 8>>, <<-5, 2, 7>>, <<1, 10, -1>> }

NoTree == [size |-> 0]
NoViewer == <<>>

InitTree ==
    /\ tree = NoTree
    /\ lastCamera = NoViewer
    /\ prevIds = {}

\* The ids of a set of nodes: <<faceId, min.x, min.y, size.x, id>>
IdsOf(nodes) ==
    { << nodes[p].faceId, nodes[p].bounds.min[1], nodes[p].bounds.min[2],
         nodes[p].size[1], nodes[p].id >> : p \in DOMAIN nodes }

\* A new tree is constructed; the previous one, if any, is freed
\* (Quadtree_Free) and only the ids of its nodes are remembered.
TreeCreate ==
    /\ \E cfg \in TreeConfigs, cmp \in TreeComparators, f \in TreeFaces :
          tree' = Quadtree_Create(cfg[1], cfg[2], cmp, TreeOrigin, f)
    /\ lastCamera' = NoViewer
    /\ prevIds' = IF tree = NoTree THEN {} ELSE IdsOf(tree.nodes)

\* Quadtree_Insert on the current tree.
TreeInsert ==
    /\ tree # NoTree
    /\ \E P \in TreeViewers :
          /\ tree' = Quadtree_Insert(tree, P)
          /\ lastCamera' = P
    /\ UNCHANGED prevIds

(***************************************************************************)
(*                               chunk.c                                   *)
(***************************************************************************)

\* chunk->model: no GPU model behind it (the field is not initialised by
\* Chunk_Create), or the model LoadModelFromMesh returned
NoModel == "none"
LoadedModel == "loaded"

\* Chunk_Create: a fresh struct Chunk (transform is the face of worldMatrix)
Chunk_Create(props) ==
    [ offset |-> props.offset,
      width |-> props.width,
      height |-> props.height,
      radius |-> props.radius,
      resolution |-> props.resolution,
      visible |-> FALSE,
      meshGenerated |-> FALSE,
      model |-> NoModel,
      transform |-> props.worldMatrix ]

\* GenerateInitialHeights lines 13-15, GenerateIndices lines 86-88: the counts
\* that decide the early returns of Chunk_GenerateMesh (no malloc fails)
VertexCount(resolution) == (resolution + 4) * (resolution + 4)
IndexCount(resolution) == (resolution + 3) * (resolution + 3) * 6

GenerateFails(props) ==
    VertexCount(props.resolution) <= 0 \/ IndexCount(props.resolution) <= 0

\* Mutant of Chunk_GenerateMesh: the flag is cleared when generation starts.
Chunk_GenerateMesh_ClearFirst(chunk, props) ==
    IF GenerateFails(props) THEN [chunk EXCEPT !.meshGenerated = FALSE]
    ELSE [chunk EXCEPT !.model = LoadedModel, !.meshGenerated = TRUE]

\* Chunk_GenerateMesh: builds and uploads the mesh and sets meshGenerated, or
\* returns early and leaves the chunk as it was
Chunk_GenerateMesh(chunk, props) ==
    IF GenerateFails(props) THEN chunk
    ELSE [chunk EXCEPT !.model = LoadedModel, !.meshGenerated = TRUE]

Chunk_Show(chunk) == [chunk EXCEPT !.visible = TRUE]

Chunk_Hide(chunk) == [chunk EXCEPT !.visible = FALSE]

\* Chunk_Render line 338: is the chunk drawn?
Chunk_Render(chunk) == chunk.visible /\ chunk.meshGenerated

\* Mutant of Chunk_UnloadsModel: UnloadModel is called on every chunk.
Chunk_UnloadsModel_Always(chunk) == TRUE

\* Chunk_Destroy lines 348-350: is UnloadModel(chunk->model) called?
Chunk_UnloadsModel(chunk) == chunk.meshGenerated

\* Chunk_Destroy: the heap without the chunk
Chunk_Destroy(h, c) == [x \in DOMAIN h \ {c} |-> h[x]]

\* malloc of a Chunk: the heap with the new struct at pointer c
HeapWith(h, c, chunk) == [x \in DOMAIN h \cup {c} |-> IF x = c THEN chunk ELSE h[x]]

NoCall == [op |-> "none"]

InitChunks ==
    /\ heap = <<>>
    /\ nextChunk = 1
    /\ lastCall = NoCall

\* ---- the chunk API called directly on chunk objects ----

\* resolutions passed in ChunkProps: -4 and -3 make generation return early
ChunkResolutions == {-4, -3, 1}

ApiProps(res) ==
    [ offset |-> <<0, 0, 0>>, worldMatrix |-> 4, width |-> 4, height |-> 4,
      radius |-> 2, resolution |-> res ]

ChunkApiCreate ==
    /\ nextChunk <= MaxChunkIds
    /\ \E res \in ChunkResolutions :
          /\ heap' = HeapWith(heap, nextChunk, Chunk_Create(ApiProps(res)))
          /\ lastCall' = [op |-> "Chunk_Create", chunk |-> nextChunk, resolution |-> res]
    /\ nextChunk' = nextChunk + 1

ChunkApiGenerateMesh ==
    /\ \E c \in DOMAIN heap, res \in ChunkResolutions :
          /\ heap' = [heap EXCEPT ![c] = Chunk_GenerateMesh(heap[c], ApiProps(res))]
          /\ lastCall' = [op |-> "Chunk_GenerateMesh", chunk |-> c, resolution |-> res,
                          wasGenerated |-> heap[c].meshGenerated]
    /\ UNCHANGED nextChunk

ChunkApiShow ==
    /\ \E c \in DOMAIN heap :
          /\ heap' = [heap EXCEPT ![c] = Chunk_Show(heap[c])]
          /\ lastCall' = [op |-> "Chunk_Show", chunk |-> c]
    /\ UNCHANGED nextChunk

ChunkApiHide ==
    /\ \E c \in DOMAIN heap :
          /\ heap' = [heap EXCEPT ![c] = Chunk_Hide(heap[c])]
          /\ lastCall' = [op |-> "Chunk_Hide", chunk |-> c]
    /\ UNCHANGED nextChunk

\* Chunk_Render leaves the chunk as it is, but for model.transform
ChunkApiRender ==
    /\ \E c \in DOMAIN heap :
          lastCall' = [op |-> "Chunk_Render", chunk |-> c,
                       drew |-> Chunk_Render(heap[c])]
    /\ UNCHANGED <<heap, nextChunk>>

\* Chunk_Destroy; the call notes whether UnloadModel ran, what chunk->model
\* was, and whether the call before it was a Chunk_GenerateMesh on this chunk
\* that returned early
ChunkApiDestroy ==
    /\ \E c \in DOMAIN heap :
          /\ heap' = Chunk_Destroy(heap, c)
          /\ lastCall' = [op |-> "Chunk_Destroy", chunk |-> c,
                          unloaded |-> Chunk_UnloadsModel(heap[c]),
                          model |-> heap[c].model,
                          wasGenerated |-> heap[c].meshGenerated,
                          afterFailedGeneration |->
                              /\ lastCall.op = "Chunk_GenerateMesh"
                              /\ lastCall.chunk = c
                              /\ GenerateFails(ApiProps(lastCall.resolution))]
    /\ UNCHANGED nextChunk

(***************************************************************************)
(*                     cubic_quadtree.c and planet.c                       *)
(***************************************************************************)
MAX_CHUNKS == 12
CUBE_FACES == 6

\* Planet_Create arguments and DEFAULT_LOD_COMPARISON_VALUE (1.25 = 5/4);
\* planet->position is the origin
PlanetConfig ==
    [ radius |-> 2, minCellSize |-> 2, minCellResolution |-> 1,
      lodDistanceComparisonValue |-> <<5, 4>>, position |-> <<0, 0, 0>> ]

\* lodOrigin of Planet_Update: far away, near +Z, closer to +Z, near +X,
\* between +X and +Z
PlanetViewers == { <<0, 0, 10>>, <<0, 0, 6>>, <<0, 0, 3>>, <<6, 0, 0>>, <<4, 0, 4>> }

\* CubicQuadTree_Create + CubicQuadTree_Insert + the leaves of face f: the
\* face tree built for this frame, subdivided for lodOrigin (the leaves are
\* those quadtree.c computes for the face)
FaceLeaves(planet, f, lodOrigin) ==
    Quadtree_GetLeafNodes(
        Quadtree_Insert(
            Quadtree_Create(planet.radius, planet.minCellSize,
                            planet.lodDistanceComparisonValue, planet.position, f),
            lodOrigin))

\* "%.2f" of a float holding an integer, as a number of hundredths
Hundredths(v) == v * 100

\* Planet_MakeChunkKey: "f%d_x%.2f_y%.2f_z%.2f_s%.2f"
Planet_MakeChunkKey(faceIndex, position, size) ==
    << faceIndex, Hundredths(position[1]), Hundredths(position[2]),
       Hundredths(position[3]), Hundredths(size) >>

NoKey == <<>>

\* line 16: the slots Planet_FindChunk looks at
FindChunkLimit(count) == count

\* Planet_FindChunk: the chunk of the first active entry with the key
RECURSIVE FindChunkFrom(_, _, _, _)
FindChunkFrom(map, limit, key, i) ==
    IF i > limit THEN NULL
    ELSE IF map[i].active /\ map[i].key = key THEN map[i].chunk
    ELSE FindChunkFrom(map, limit, key, i + 1)

Planet_FindChunk(map, count, key) == FindChunkFrom(map, FindChunkLimit(count), key, 1)

\* lines 30-31: the first slot that is not active, or 0
RECURSIVE FirstFreeSlot(_, _)
FirstFreeSlot(map, i) ==
    IF i > MAX_CHUNKS THEN 0
    ELSE IF ~map[i].active THEN i
    ELSE FirstFreeSlot(map, i + 1)

\* Mutant of Planet_AddChunk: a full table gives up its last slot.
Planet_AddChunk_Overwrite(st, key, chunk) ==
    IF st.count >= MAX_CHUNKS
    THEN [st EXCEPT !.map[MAX_CHUNKS] = [key |-> key, chunk |-> chunk, active |-> TRUE]]
    ELSE LET i == FirstFreeSlot(st.map, 1)
         IN  IF i = 0 THEN st
             ELSE [st EXCEPT !.map[i] = [key |-> key, chunk |-> chunk, active |-> TRUE],
                             !.count = @ + 1]

\* Planet_AddChunk on the update state st (map, count, ...)
Planet_AddChunk(st, key, chunk) ==
    IF st.count >= MAX_CHUNKS THEN st
    ELSE LET i == FirstFreeSlot(st.map, 1)
         IN  IF i = 0 THEN st
             ELSE [st EXCEPT !.map[i] = [key |-> key, chunk |-> chunk, active |-> TRUE],
                             !.count = @ + 1]

\* lines 47-48: the first active slot that holds the key, or 0
RECURSIVE FirstMatchSlot(_, _, _)
FirstMatchSlot(map, key, i) ==
    IF i > MAX_CHUNKS THEN 0
    ELSE IF map[i].active /\ map[i].key = key THEN i
    ELSE FirstMatchSlot(map, key, i + 1)

\* Planet_RemoveChunk on the update state st
Planet_RemoveChunk(st, key) ==
    LET i == FirstMatchSlot(st.map, key, 1)
    IN  IF i = 0 THEN st
        ELSE [st EXCEPT !.heap = Chunk_Destroy(@, st.map[i].chunk),
                        !.destroyed = @ \cup {st.map[i].chunk},
                        !.map[i] = [@ EXCEPT !.active = FALSE, !.chunk = NULL],
                        !.count = @ - 1]

\* lines 176-188: the ChunkProps of a new chunk
PropsOf(planet, faceIdx, center, size) ==
    [ offset |-> center, worldMatrix |-> faceIdx, width |-> size, height |-> size,
      radius |-> planet.radius, resolution |-> planet.minCellResolution ]

\* lines 156-195: one leaf node of face faceIdx
UpdateNode(planet, st, faceIdx, node) ==
    LET center == << node.center[1], node.center[2], 0 >>
        size == node.size[1]
        key == Planet_MakeChunkKey(faceIdx, center, size)
    IN  IF Len(st.newKeys) < MAX_CHUNKS
        THEN LET s1 == [st EXCEPT !.newKeys = Append(@, key)]
                 existingChunk == Planet_FindChunk(s1.map, s1.count, key)
             IN  IF existingChunk = NULL
                 THEN LET props == PropsOf(planet, faceIdx, center, size)
                          chunk == s1.next
                          s2 == [s1 EXCEPT
                                   !.heap = HeapWith(@, chunk,
                                               Chunk_Show(Chunk_GenerateMesh(
                                                   Chunk_Create(props), props))),
                                   !.next = @ + 1,
                                   !.requested = @ + 1,
                                   !.created = @ \cup {chunk}]
                          s3 == Planet_AddChunk(s2, key, chunk)
                      IN  \* note the calls that found the table full
                          IF s2.count >= MAX_CHUNKS
                          THEN [s3 EXCEPT !.full = @ \cup
                                  {[ chunk |-> chunk,
                                     unchanged |-> s3.map = s2.map /\ s3.count = s2.count ]}]
                          ELSE s3
                 ELSE s1
        ELSE st

\* lines 155-196: the leaves of one face, in order (chunkCount is never
\* negative: the test only makes the state of each iteration be computed
\* before the next one starts)
RECURSIVE UpdateNodes(_, _, _, _, _)
UpdateNodes(planet, st, faceIdx, nodes, i) ==
    IF i > Len(nodes) \/ st.count < 0 THEN st
    ELSE UpdateNodes(planet, UpdateNode(planet, st, faceIdx, nodes[i]), faceIdx,
                     nodes, i + 1)

\* lines 149-199: the faces, in order
RECURSIVE UpdateFaces(_, _, _, _)
UpdateFaces(planet, st, lodOrigin, faceIdx) ==
    IF faceIdx >= CUBE_FACES \/ st.count < 0 THEN st
    ELSE UpdateFaces(planet,
                     UpdateNodes(planet, st, faceIdx,
                                 FaceLeaves(planet, faceIdx, lodOrigin), 1),
                     lodOrigin, faceIdx + 1)

Range(seq) == {seq[i] : i \in DOMAIN seq}

\* lines 202-218: remove the chunks whose key is not one of newKeys
RECURSIVE RemoveOld(_, _)
RemoveOld(st, i) ==
    IF i > MAX_CHUNKS \/ st.count < 0 THEN st
    ELSE IF ~st.map[i].active THEN RemoveOld(st, i + 1)
    ELSE IF st.map[i].key \in Range(st.newKeys) THEN RemoveOld(st, i + 1)
    ELSE RemoveOld(Planet_RemoveChunk(st, st.map[i].key), i + 1)

\* Planet_Update: the update state after the whole call
Planet_Update(planet, map, count, h, next, lodOrigin) ==
    LET st0 == [ map |-> map, count |-> count, heap |-> h, next |-> next,
                 newKeys |-> <<>>, requested |-> 0, created |-> {},
                 destroyed |-> {}, full |-> {} ]
    IN  RemoveOld(UpdateFaces(planet, st0, lodOrigin, 0), 1)

\* The keys of all leaves of the frame's six trees.
LeafKeys(planet, lodOrigin) ==
    UNION { { Planet_MakeChunkKey(f, << n.center[1], n.center[2], 0 >>, n.size[1]) :
                n \in Range(FaceLeaves(planet, f, lodOrigin)) } : f \in 0..(CUBE_FACES - 1) }

NoFrame == [n |-> 0]
NoTeardown == [done |-> FALSE]

\* Planet_Create: an empty table
InitPlanet ==
    /\ chunkMap = [i \in 1..MAX_CHUNKS |-> [key |-> NoKey, chunk |-> NULL, active |-> FALSE]]
    /\ chunkCount = 0
    /\ frame = NoFrame
    /\ teardown = NoTeardown

\* Mutant of UploadThread: generation and upload are handed to a pool worker.
UploadThread_Worker(caller) == CHOOSE w \in Workers : TRUE

\* line 191: Chunk_GenerateMesh is called directly, so the whole of it,
\* UploadMesh and LoadModelFromMesh (chunk.c:316-319) included, runs on the
\* thread that runs Planet_Update
UploadThread(caller) == caller

\* One frame: Planet_Update(planet, lodOrigin).  "frame" records what the call
\* saw and did: n (1 for the first update, 2 afterwards), the leaf keys of
\* this frame and of the one before, the table before the call, the patches
\* requested (leaves without a chunk), the chunks allocated and destroyed by
\* this call, the number destroyed by the call before, the calls of
\* Planet_AddChunk that found the table full, the thread that uploaded each
\* generated mesh, lodOrigin of this call and of the one before, and
\* chunkCount before the call.  The render loop calls Planet_Update on the
\* main thread.
PlanetUpdate ==
    /\ nextChunk <= MaxAllocated
    /\ ~teardown.done
    /\ \E lodOrigin \in PlanetViewers :
          LET st == Planet_Update(PlanetConfig, chunkMap, chunkCount, heap,
                                  nextChunk, lodOrigin)
          IN  /\ chunkMap' = st.map
              /\ chunkCount' = st.count
              /\ heap' = st.heap
              /\ nextChunk' = st.next
              /\ UNCHANGED <<lastCall, teardown>>
              /\ frame' = [ n |-> IF frame = NoFrame THEN 1 ELSE 2,
                            leafKeys |-> LeafKeys(PlanetConfig, lodOrigin),
                            prevLeafKeys |-> IF frame = NoFrame THEN {}
                                             ELSE frame.leafKeys,
                            prevMap |-> chunkMap,
                            requested |-> st.requested,
                            created |-> st.created,
                            destroyed |-> st.destroyed,
                            prevRetired |-> IF frame = NoFrame THEN 0
                                            ELSE Cardinality(frame.destroyed),
                            full |-> st.full,
                            uploads |-> { << c, UploadThread(MainThread) >> :
                                            c \in { x \in st.created :
                                                      st.heap[x].meshGenerated } },
                            lodOrigin |-> lodOrigin,
                            prevLodOrigin |-> IF frame = NoFrame THEN lodOrigin
                                              ELSE frame.lodOrigin,
                            prevCount |-> chunkCount ]

\* Planet_Destroy lines 242-246: Chunk_Destroy on the chunk of every active slot
RECURSIVE DestroyChunksFrom(_, _, _)
DestroyChunksFrom(map, h, i) ==
    IF i > MAX_CHUNKS THEN h
    ELSE IF map[i].active THEN DestroyChunksFrom(map, Chunk_Destroy(h, map[i].chunk), i + 1)
    ELSE DestroyChunksFrom(map, h, i + 1)

Planet_Destroy(map, h) == DestroyChunksFrom(map, h, 1)

\* Teardown: Planet_Destroy(planet) on the main thread.  It contains no call
\* of ThreadPool_WaitAll; "afterWaitAll" notes whether the calling thread
\* had just returned from one when the chunks were freed.
PlanetDestroy ==
    /\ ~teardown.done
    /\ frame # NoFrame
    /\ heap' = Planet_Destroy(chunkMap, heap)
    /\ teardown' = [ done |-> TRUE,
                     freed |-> DOMAIN heap \ DOMAIN heap',
                     afterWaitAll |-> mpc = "waReturned" ]
    /\ UNCHANGED <<chunkMap, chunkCount, frame, nextChunk, lastCall>>

(***************************************************************************)
(*        Leaf enumeration: quadtree.c 129-149, cubic_quadtree.c 41-65     *)
(*                                                                         *)
(* The output array is the sequence outNodes: the C index i is position    *)
(* i + 1.  "overrun" notes a write at an index that is not below the       *)
(* capacity the array has at that moment.                                  *)
(***************************************************************************)
\* quadtree.c line 145 and cubic_quadtree.c line 42: the initial capacities
INITIAL_LEAF_CAPACITY == 128
CUBIC_LEAF_CAPACITY == 128 * 6

NoScan == [active |-> FALSE]
NoCube == [active |-> FALSE]

InitLeaves ==
    /\ scan = NoScan
    /\ cube = NoCube

\* <<size, minNodeSize, comparatorValue, cameraPosition, faceId>> of the trees
\* that are enumerated: a full tree of 256 leaves (the viewer at the centre
\* is nearer than 5 * size.x to every node), an unevenly split one, a root,
\* and a full tree of 1024 leaves of size 4 on the face [-64, 64]^2
ScanTrees ==
    { << 16, 2, <<5, 1>>, <<0, 0, 0>>, 4 >>,
      << 64, 4, <<9, 1>>, <<0, 0, 0>>, 0 >>,
      << 4, 2, <<1, 1>>, <<3, 3, 8>>, 4 >>,
      << 4, 8, <<1, 1>>, <<0, 0, 40>>, 0 >> }

\* Mutant of LeafMustGrow: the array grows one leaf too late.
LeafMustGrow_Late(outCount, capacity) == outCount > capacity

\* line 131: must the array grow before the leaf is stored?
LeafMustGrow(outCount, capacity) == outCount >= capacity

\* Quadtree_GetLeafNodes lines 145-148: allocate the array and call
\* GetLeafNodesRecursive on the root (one enumeration is followed at a time).  "stack" holds the nodes whose call of
\* GetLeafNodesRecursive is still to come, the next one first.
ScanStart ==
    /\ scan = NoScan
    /\ cube = NoCube
    /\ \E c \in ScanTrees :
          scan' = [ active |-> TRUE,
                    nodes |-> Quadtree_Insert(
                                  Quadtree_Create(c[1], c[2], c[3], TreeOrigin, c[5]),
                                  c[4]).nodes,
                    stack |-> << <<>> >>,
                    outNodes |-> <<>>,
                    outCount |-> 0,
                    capacity |-> INITIAL_LEAF_CAPACITY,
                    overrun |-> FALSE ]
    /\ UNCHANGED cube

\* One call of GetLeafNodesRecursive (lines 129-142): a leaf is stored, after
\* the array was doubled if it was full; the children of another node are
\* visited in the order of children[].
ScanVisit ==
    /\ scan.active
    /\ scan.stack # <<>>
    /\ LET p == Head(scan.stack)
       IN  IF scan.nodes[p].isLeaf
           THEN LET cap == IF LeafMustGrow(scan.outCount, scan.capacity)
                           THEN scan.capacity * 2 ELSE scan.capacity
                IN  scan' = [scan EXCEPT !.capacity = cap,
                                         !.overrun = @ \/ scan.outCount >= cap,
                                         !.outNodes = Append(@, p),
                                         !.outCount = @ + 1,
                                         !.stack = Tail(@)]
           ELSE scan' = [scan EXCEPT !.stack = << Append(p, 0), Append(p, 1),
                                                  Append(p, 2), Append(p, 3) >>
                                                \o Tail(@)]
    /\ UNCHANGED cube

\* <<radius, minNodeSize, comparatorValue, cameraPosition>> of the cubes that
\* are enumerated: six full trees (1536 leaves), and the planet of
\* PlanetConfig seen from near and from far
CubeConfigs ==
    { << 16, 2, <<5, 1>>, <<0, 0, 0>> >>,
      << 2, 2, <<5, 4>>, <<0, 0, 3>> >>,
      << 2, 2, <<5, 4>>, <<0, 0, 10>> >> }

\* Quadtree_CreateWithFace(radius, minNodeSize, comparatorValue, origin,
\* transforms[i], i), called at cubic_quadtree.c line 29: the tree of face i,
\* whose nodes are tagged with the face index
Quadtree_CreateWithFace(size, minNodeSize, comparatorValue, origin, faceId) ==
    Quadtree_Create(size, minNodeSize, comparatorValue, origin, faceId)

\* tree->faces[i] after CubicQuadTree_Create and CubicQuadTree_Insert
CubeFaceTree(c, i) ==
    Quadtree_Insert(Quadtree_CreateWithFace(c[1], c[2], c[3], TreeOrigin, i), c[4])

\* Mutant of CubeMustGrow: the leaves about to be copied are not counted.
CubeMustGrow_CountOnly(outCount, faceCount, capacity) == outCount > capacity

\* cubic_quadtree.c line 52: must the array grow before the face is copied?
CubeMustGrow(outCount, faceCount, capacity) == outCount + faceCount > capacity

\* CubicQuadTree_GetLeafNodes lines 42-44
CubeStart ==
    /\ cube = NoCube
    /\ scan = NoScan
    /\ \E c \in CubeConfigs :
          cube' = [ active |-> TRUE,
                    cfg |-> c,
                    face |-> 0,
                    outNodes |-> <<>>,
                    outCount |-> 0,
                    capacity |-> CUBIC_LEAF_CAPACITY,
                    overrun |-> FALSE,
                    faceCounts |-> <<>> ]
    /\ UNCHANGED scan

\* One round of the loop of lines 46-64: the leaves of face i are collected,
\* the array is resized if they do not fit, and they are copied behind the
\* leaves already there.  An entry notes the round that copied it, the faceId
\* the node carries, and the node (its path in the tree of the face).
CubeCopy(c, i, nodes, faceNodes, faceCount) ==
    LET cap == IF CubeMustGrow(c.outCount, faceCount, c.capacity)
               THEN (c.outCount + faceCount) * 2 ELSE c.capacity
    IN  [c EXCEPT
           !.capacity = cap,
           !.overrun = @ \/ c.outCount + faceCount > cap,
           !.outNodes = @ \o [j \in 1..faceCount |->
                                 [ face |-> i,
                                   faceId |-> nodes[faceNodes[j]].faceId,
                                   path |-> faceNodes[j] ]],
           !.outCount = @ + faceCount,
           !.faceCounts = Append(@, faceCount),
           !.face = @ + 1]

\* lines 47-49: Quadtree_GetLeafNodes on the tree of face i
CubeCollect(c, i, nodes, faceNodes) == CubeCopy(c, i, nodes, faceNodes, Len(faceNodes))

CubeRound(c, i, nodes) == CubeCollect(c, i, nodes, GetLeafNodesRecursive(nodes, <<>>))

CubeFace ==
    /\ cube.active
    /\ cube.face < CUBE_FACES
    /\ cube' = CubeRound(cube, cube.face, CubeFaceTree(cube.cfg, cube.face).nodes)
    /\ UNCHANGED scan

(***************************************************************************)
(*                 chunk_utils.c: ChunkMap and ChunkPool                   *)
(*                                                                         *)
(* A bucket is its chain, first entry first; bucket i of the C array is     *)
(* buckets[i + 1].  Keys are 64-bit values on four 16-bit limbs, low limb   *)
(* first.  cmapRef and poolRef are history variables: what the calls made   *)
(* so far leave in a finite map, resp. on a stack; the code never reads     *)
(* them.  A behaviour works on one container, a map or a pool.              *)
(***************************************************************************)
NoMap == [active |-> FALSE]
NoPool == [active |-> FALSE]
NoUtilCall == [op |-> "none"]

InitUtils ==
    /\ cmap = NoMap
    /\ cmapRef = <<>>
    /\ mapCall = NoUtilCall
    /\ cpool = NoPool
    /\ poolRef = <<>>
    /\ poolCall = NoUtilCall

\* ---- ChunkMap ----
\* capacities passed to ChunkMap_Create
MapCapacities == {1, 2, 3}

\* keys passed to the map: 0, 1, 3 and 2^32
MapKeys == { <<0, 0, 0, 0>>, <<1, 0, 0, 0>>, <<3, 0, 0, 0>>, <<0, 0, 1, 0>> }

\* chunk pointers stored in the map
MapValues == {1, 2}

\* key % capacity
Hash(key, capacity) ==
    ((((((key[4] % capacity) * Limb + key[3]) % capacity) * Limb + key[2])
          % capacity) * Limb + key[1]) % capacity

ChunkMap_Create(capacity) ==
    [active |-> TRUE, capacity |-> capacity, count |-> 0,
     buckets |-> [i \in 1..capacity |-> <<>>]]

\* positions of the chain whose entry has the key
Matches(chain, key) == { i \in 1..Len(chain) : chain[i].key = key }

\* the entry the chain walk stops at
FirstMatch(chain, key) ==
    CHOOSE i \in Matches(chain, key) : \A j \in Matches(chain, key) : i <= j

RemoveAt(chain, i) == SubSeq(chain, 1, i - 1) \o SubSeq(chain, i + 1, Len(chain))

ChunkMap_Insert_Prepend(map, key, value) ==
    LET b == Hash(key, map.capacity) + 1
    IN  [map EXCEPT !.buckets[b] = <<[key |-> key, value |-> value]>> \o @,
                    !.count = @ + 1]

ChunkMap_Insert(map, key, value) ==
    LET b == Hash(key, map.capacity) + 1
        chain == map.buckets[b]
    IN  IF Matches(chain, key) # {}
        THEN [map EXCEPT !.buckets[b][FirstMatch(chain, key)].value = value]
        ELSE [map EXCEPT !.buckets[b] = <<[key |-> key, value |-> value]>> \o @,
                         !.count = @ + 1]

ChunkMap_Get(map, key) ==
    LET chain == map.buckets[Hash(key, map.capacity) + 1]
    IN  IF Matches(chain, key) # {}
        THEN chain[FirstMatch(chain, key)].value
        ELSE NULL

\* the map after ChunkMap_Remove; the call returns ChunkMap_Get of before
ChunkMap_Remove(map, key) ==
    LET b == Hash(key, map.capacity) + 1
        chain == map.buckets[b]
    IN  IF Matches(chain, key) # {}
        THEN [map EXCEPT !.buckets[b] = RemoveAt(chain, FirstMatch(chain, key)),
                         !.count = @ - 1]
        ELSE map

ChunkMap_Clear(map) ==
    [map EXCEPT !.buckets = [i \in 1..map.capacity |-> <<>>], !.count = 0]

RefPut(ref, key, value) == [k \in DOMAIN ref \cup {key} |->
                               IF k = key THEN value ELSE ref[k]]

RefDrop(ref, key) == [k \in DOMAIN ref \ {key} |-> ref[k]]

MapCreate ==
    /\ cmap = NoMap
    /\ cpool = NoPool
    /\ \E capacity \in MapCapacities : cmap' = ChunkMap_Create(capacity)
    /\ mapCall' = [op |-> "ChunkMap_Create"]
    /\ UNCHANGED <<cmapRef, cpool, poolRef, poolCall>>

MapInsert ==
    /\ cmap.active
    /\ \E key \in MapKeys, value \in MapValues :
           /\ cmap' = ChunkMap_Insert(cmap, key, value)
           /\ cmapRef' = RefPut(cmapRef, key, value)
           /\ mapCall' = [op |-> "ChunkMap_Insert", key |-> key,
                          before |-> cmap, refBefore |-> cmapRef]
    /\ UNCHANGED <<cpool, poolRef, poolCall>>

MapGet ==
    /\ cmap.active
    /\ \E key \in MapKeys :
           mapCall' = [op |-> "ChunkMap_Get", key |-> key,
                       result |-> ChunkMap_Get(cmap, key)]
    /\ UNCHANGED <<cmap, cmapRef, cpool, poolRef, poolCall>>

MapRemove ==
    /\ cmap.active
    /\ \E key \in MapKeys :
           /\ cmap' = ChunkMap_Remove(cmap, key)
           /\ cmapRef' = RefDrop(cmapRef, key)
           /\ mapCall' = [op |-> "ChunkMap_Remove", key |-> key,
                          result |-> ChunkMap_Get(cmap, key),
                          before |-> cmap, refBefore |-> cmapRef]
    /\ UNCHANGED <<cpool, poolRef, poolCall>>

MapClear ==
    /\ cmap.active
    /\ cmap' = ChunkMap_Clear(cmap)
    /\ cmapRef' = <<>>
    /\ mapCall' = [op |-> "ChunkMap_Clear"]
    /\ UNCHANGED <<cpool, poolRef, poolCall>>

\* ---- ChunkPool ----
\* The array is the sequence chunks: slot i of the C array is chunks[i + 1],
\* and only the slots below count are kept.
\* initialCapacity values passed to ChunkPool_Create
PoolCapacities == {0, 1, 2}

\* the chunks the caller releases are 1..MaxPoolChunks
MaxPoolChunks == 3

PoolChunks == 1..MaxPoolChunks

\* what a slot written outside the array may hold when it is read back
Garbage == 0 - 1

ChunkPool_Create(initialCapacity) ==
    [active |-> TRUE, capacity |-> initialCapacity, count |-> 0,
     chunks |-> <<>>, crashed |-> FALSE]

\* capacity after lines 107-110
GrownCapacity(pool) ==
    IF pool.count >= pool.capacity THEN pool.capacity * 2 ELSE pool.capacity

\* chunks[count++] = chunk lands inside the array
ReleaseInBounds(pool) == pool.count < GrownCapacity(pool)

ChunkPool_Release(pool, chunk, stored) ==
    [pool EXCEPT !.capacity = GrownCapacity(pool),
                 !.chunks = Append(@, stored),
                 !.count = @ + 1]

\* the pool after ChunkPool_Acquire; the call returns AcquireResult of before
ChunkPool_Acquire(pool) ==
    IF pool.count > 0
    THEN [pool EXCEPT !.count = @ - 1,
                      !.chunks = SubSeq(@, 1, pool.count - 1)]
    ELSE pool

AcquireResult(pool) == IF pool.count > 0 THEN pool.chunks[pool.count] ELSE NULL

SeqRange(q) == { q[i] : i \in 1..Len(q) }

PoolCreate ==
    /\ cpool = NoPool
    /\ cmap = NoMap
    /\ \E initialCapacity \in PoolCapacities :
           cpool' = ChunkPool_Create(initialCapacity)
    /\ poolCall' = [op |-> "ChunkPool_Create"]
    /\ UNCHANGED <<poolRef, cmap, cmapRef, mapCall>>

\* A write outside the array is undefined: the slot may keep the chunk, may
\* hold something else when it is read back, or the write may fault.
PoolRelease ==
    /\ cpool.active
    /\ ~cpool.crashed
    /\ \E chunk \in PoolChunks \ SeqRange(poolRef) :
           /\ \/ /\ ReleaseInBounds(cpool)
                 /\ cpool' = ChunkPool_Release(cpool, chunk, chunk)
              \/ /\ ~ReleaseInBounds(cpool)
                 /\ \/ \E stored \in {chunk, Garbage} :
                           cpool' = ChunkPool_Release(cpool, chunk, stored)
                    \/ cpool' = [cpool EXCEPT !.crashed = TRUE]
           /\ poolRef' = Append(poolRef, chunk)
           /\ poolCall' = [op |-> "ChunkPool_Release", chunk |-> chunk,
                           index |-> cpool.count,
                           inBounds |-> ReleaseInBounds(cpool)]
    /\ UNCHANGED <<cmap, cmapRef, mapCall>>

PoolAcquire ==
    /\ cpool.active
    /\ ~cpool.crashed
    /\ cpool' = ChunkPool_Acquire(cpool)
    /\ poolRef' = SubSeq(poolRef, 1, Len(poolRef) - 1)
    /\ poolCall' = [op |-> "ChunkPool_Acquire", result |-> AcquireResult(cpool),
                    before |-> cpool, refBefore |-> poolRef]
    /\ UNCHANGED <<cmap, cmapRef, mapCall>>

(***************************************************************************)
(*                             chunk_map.c                                 *)
(*                                                                         *)
(* The string-keyed map.  Its table is a uthash table: HASH_ADD_STR links  *)
(* a new entry behind the entries already there, HASH_ITER visits the      *)
(* entries in that order, and HASH_FIND_STR finds the entry whose key has  *)
(* the same characters.  A key is the tuple of its characters.             *)
(***************************************************************************)
\* chunk_map.h line 10: char key[128]
KEY_SIZE == 128

\* the keys passed to ChunkMap_Put: the empty string, and two keys of which
\* one is a prefix of the other
StrKeys == { <<>>, <<1>>, <<1, 2>> }

\* the chunk pointers passed to ChunkMap_Put
StrChunks == {NULL, 1}

\* lines 6-11 of chunk_map.c
StrChunkMap_Create == [entries |-> <<>>, count |-> 0]

\* HASH_FIND_STR (lines 35, 52, 58): the position of the entry with the
\* characters of key, or 0
RECURSIVE HashFindStr(_, _, _)
HashFindStr(entries, key, i) ==
    IF i > Len(entries) THEN 0
    ELSE IF entries[i].key = key THEN i
    ELSE HashFindStr(entries, key, i + 1)

\* line 43: strncpy(entry->key, key, 128) copies the characters of key up to
\* its end, and no more than n of them
StrNCpy(key, n) == IF Len(key) < n THEN key ELSE SubSeq(key, 1, n)

\* lines 33-48
ChunkMap_Put(map, key, chunk) ==
    LET i == HashFindStr(map.entries, key, 1)
    IN  IF i # 0
        THEN [map EXCEPT !.entries[i].chunk = chunk]
        ELSE [ entries |-> Append(map.entries,
                                  [key |-> StrNCpy(key, KEY_SIZE), chunk |-> chunk]),
               count |-> map.count + 1 ]

\* lines 50-54 of chunk_map.c
StrChunkMap_Get(map, key) ==
    LET i == HashFindStr(map.entries, key, 1)
    IN  IF i # 0 THEN map.entries[i].chunk ELSE NULL

\* lines 56-60
ChunkMap_Contains(map, key) == HashFindStr(map.entries, key, 1) # 0

\* line 83: the test of the loop of ChunkMap_Intersection
IntersectionTakes(b, key) == ChunkMap_Contains(b, key)

\* Mutant of DifferenceTakes: every entry of a is taken.
DifferenceTakes_All(b, key) == TRUE

\* line 98: the test of the loop of ChunkMap_Difference
DifferenceTakes(b, key) == ~ChunkMap_Contains(b, key)

\* lines 82-86: HASH_ITER over the entries of a from entry i on
RECURSIVE IntersectionFrom(_, _, _, _)
IntersectionFrom(a, b, i, result) ==
    IF i > Len(a.entries) THEN result
    ELSE IntersectionFrom(a, b, i + 1,
             IF IntersectionTakes(b, a.entries[i].key)
             THEN ChunkMap_Put(result, a.entries[i].key, a.entries[i].chunk)
             ELSE result)

\* lines 76-89
ChunkMap_Intersection(a, b) == IntersectionFrom(a, b, 1, StrChunkMap_Create)

\* lines 97-101: HASH_ITER over the entries of a from entry i on
RECURSIVE DifferenceFrom(_, _, _, _)
DifferenceFrom(a, b, i, result) ==
    IF i > Len(a.entries) THEN result
    ELSE DifferenceFrom(a, b, i + 1,
             IF DifferenceTakes(b, a.entries[i].key)
             THEN ChunkMap_Put(result, a.entries[i].key, a.entries[i].chunk)
             ELSE result)

\* lines 91-104
ChunkMap_Difference(a, b) == DifferenceFrom(a, b, 1, StrChunkMap_Create)

\* Two maps are created.
StrMapsCreate ==
    /\ ~smaps.active
    /\ smaps' = [ active |-> TRUE, op |-> "ChunkMap_Create",
                  a |-> StrChunkMap_Create, b |-> StrChunkMap_Create,
                  before |-> [a |-> StrChunkMap_Create, b |-> StrChunkMap_Create],
                  inter |-> StrChunkMap_Create, diff |-> StrChunkMap_Create ]
    /\ UNCHANGED skirt

\* ChunkMap_Put on one of the two maps
StrMapsPut ==
    /\ smaps.active
    /\ \E key \in StrKeys, chunk \in StrChunks :
           \/ smaps' = [smaps EXCEPT !.op = "ChunkMap_Put",
                                     !.a = ChunkMap_Put(smaps.a, key, chunk),
                                     !.before = [a |-> StrChunkMap_Create,
                                                 b |-> StrChunkMap_Create],
                                     !.inter = StrChunkMap_Create,
                                     !.diff = StrChunkMap_Create]
           \/ smaps' = [smaps EXCEPT !.op = "ChunkMap_Put",
                                     !.b = ChunkMap_Put(smaps.b, key, chunk),
                                     !.before = [a |-> StrChunkMap_Create,
                                                 b |-> StrChunkMap_Create],
                                     !.inter = StrChunkMap_Create,
                                     !.diff = StrChunkMap_Create]
    /\ UNCHANGED skirt

\* ChunkMap_Intersection(a, b) and ChunkMap_Difference(a, b) on the two maps;
\* neither function writes to a or b
StrMapsDiff ==
    /\ smaps.active
    /\ smaps' = [smaps EXCEPT !.op = "diff",
                              !.before = [a |-> smaps.a, b |-> smaps.b],
                              !.inter = ChunkMap_Intersection(smaps.a, smaps.b),
                              !.diff = ChunkMap_Difference(smaps.a, smaps.b)]
    /\ UNCHANGED skirt

(***************************************************************************)
(*                  chunk.c: the vertex grid and its skirt                 *)
(*                                                                         *)
(* The position GenerateInitialHeights computes for vertex i is the record *)
(* [base |-> i, shifts |-> <<>>]; a position moved along the up vector of  *)
(* vertex u by the amount s has <<u, s>> appended to its shifts.  The      *)
(* normal GenerateNormals computes for vertex i is i.                      *)
(***************************************************************************)
MaxResolution == 4

\* props.resolution, props.width, props.radius of the chunks generated; the
\* radii are multiples of 5, so that radius / 5.0f is exact
SkirtResolutions == 1..MaxResolution
SkirtWidths == {0, 1, 2, 4}
SkirtRadii == {5, 10}

\* line 12 of GenerateInitialHeights and line 85 of GenerateIndices: the
\* number of vertices per side of the grid
GridSide(resolution) == resolution + 4

\* lines 9-79 and 108-141: the buffers after GenerateInitialHeights and
\* GenerateNormals; vertex idx is written for the grid point (x, y) in the
\* order of the loops of lines 25 and 27, which makes the grid row-major
\* with GridSide vertices per row
GenerateInitialHeights(resolution) ==
    [ vertexCount |-> GridSide(resolution) * GridSide(resolution),
      positions |-> [i \in 0..(GridSide(resolution) * GridSide(resolution) - 1) |->
                        [base |-> i, shifts |-> <<>>]],
      ups |-> [i \in 0..(GridSide(resolution) * GridSide(resolution) - 1) |-> i],
      normals |-> [i \in 0..(GridSide(resolution) * GridSide(resolution) - 1) |-> i],
      written |-> {},
      read |-> {} ]

\* lines 150-151: fminf(width, radius / 5.0f), clamped at 0
SkirtSize(width, radius) ==
    LET s == IF width < radius \div 5 THEN width ELSE radius \div 5
    IN  IF s < 0 THEN 0 ELSE s

\* lines 154-177: the macro ApplyFix(xi, yi, proxyXi, proxyYi), for
\* fix = <<xi, yi, proxyXi, proxyYi>>; amount is the factor of line 167
ApplyFix(mesh, fix, gridSize, amount) ==
    LET skirtIndex == fix[1] * gridSize + fix[2]
        proxyIndex == fix[3] * gridSize + fix[4]
    IN  [mesh EXCEPT
            !.positions[skirtIndex] =
                [ base |-> mesh.positions[proxyIndex].base,
                  shifts |-> Append(mesh.positions[proxyIndex].shifts,
                                    <<mesh.ups[proxyIndex], amount>>) ],
            !.normals[skirtIndex] = mesh.normals[proxyIndex],
            !.written = @ \cup {skirtIndex},
            !.read = @ \cup {proxyIndex}]

\* lines 180-196: the calls of ApplyFix in the order of the four loops
SkirtFixes(effectiveResolution) ==
    [y \in 1..(effectiveResolution + 1) |-> <<0, y - 1, 1, y - 1>>]
    \o [y \in 1..(effectiveResolution + 1) |->
            <<effectiveResolution, y - 1, effectiveResolution - 1, y - 1>>]
    \o [x \in 1..(effectiveResolution + 1) |-> <<x - 1, 0, x - 1, 1>>]
    \o [x \in 1..(effectiveResolution + 1) |->
            <<x - 1, effectiveResolution, x - 1, effectiveResolution - 1>>]

\* The buffers after the calls fixes[i], fixes[i + 1], ...; the buffers
\* after each call are the element of a one-element set, so that they are
\* computed once, before the next call.
RECURSIVE ApplyFixes(_, _, _, _, _)
ApplyFixes(mesh, fixes, i, gridSize, amount) ==
    IF i > Len(fixes) THEN mesh
    ELSE CHOOSE r \in { ApplyFixes(m, fixes, i + 1, gridSize, amount) :
                            m \in {ApplyFix(mesh, fixes[i], gridSize, amount)} } : TRUE

\* lines 144-199
FixEdgeSkirts(resolution, mesh, width, radius, inverted) ==
    LET effectiveResolution == resolution + 2
        gridSize == effectiveResolution + 1
        skirtSize == SkirtSize(width, radius)
    IN  ApplyFixes(mesh, SkirtFixes(effectiveResolution), 1, gridSize,
                   IF inverted THEN skirtSize ELSE 0 - skirtSize)

\* Chunk_GenerateMesh, lines 242-262: the grid, the indices and the normals
SkirtGenerate ==
    /\ \E resolution \in SkirtResolutions, width \in SkirtWidths,
          radius \in SkirtRadii, inverted \in BOOLEAN :
           skirt' = [ active |-> TRUE, op |-> "generated",
                      props |-> [resolution |-> resolution, width |-> width,
                                 radius |-> radius, inverted |-> inverted],
                      mesh |-> GenerateInitialHeights(resolution) ]
    /\ UNCHANGED smaps

\* Chunk_GenerateMesh, line 273
SkirtFix ==
    /\ skirt.active
    /\ skirt.op = "generated"
    /\ skirt' = [skirt EXCEPT
                    !.op = "fixed",
                    !.mesh = FixEdgeSkirts(skirt.props.resolution, skirt.mesh,
                                           skirt.props.width, skirt.props.radius,
                                           skirt.props.inverted)]
    /\ UNCHANGED smaps

(***************************************************************************)
(*                           Specifications                                *)
(***************************************************************************)
InitPure ==
    /\ smaps = [active |-> FALSE]
    /\ skirt = [active |-> FALSE]

Init == InitPool /\ InitTree /\ InitChunks /\ InitPlanet /\ InitLeaves /\ InitUtils
            /\ InitPure

NextPool ==
    \/ \E w \in Workers : WorkerStep(w) /\ UNCHANGED <<treeVars, chunkVars, planetVars, leafVars, utilVars, pureVars>>
    \/ \E w \in Workers : WorkerSpuriousWake(w) /\ UNCHANGED <<treeVars, chunkVars, planetVars, leafVars, utilVars, pureVars>>
    \/ EnqueueLock /\ UNCHANGED <<treeVars, chunkVars, planetVars, leafVars, utilVars, pureVars>>
    \/ EnqueueAppend /\ UNCHANGED <<treeVars, chunkVars, planetVars, leafVars, utilVars, pureVars>>
    \/ MainWaitAllStep /\ UNCHANGED <<treeVars, chunkVars, planetVars, leafVars, utilVars, pureVars>>
    \/ WaitAllSpuriousWake /\ UNCHANGED <<treeVars, chunkVars, planetVars, leafVars, utilVars, pureVars>>
    \/ DestroyLock /\ UNCHANGED <<treeVars, chunkVars, planetVars, leafVars, utilVars, pureVars>>
    \/ DestroyShutdown /\ UNCHANGED <<treeVars, chunkVars, planetVars, leafVars, utilVars, pureVars>>
    \/ DestroyJoin /\ UNCHANGED <<treeVars, chunkVars, planetVars, leafVars, utilVars, pureVars>>

SpecPool == Init /\ [][NextPool]_vars

\* The steps of a ThreadPool_WaitAll call that is under way.
WaitAllProgress ==
    \/ (mpc = "waLock" /\ WaitAllLock)
    \/ WaitAllCheck

\* The steps of the calling thread inside ThreadPool_Enqueue and
\* ThreadPool_Destroy once it holds the mutex or joins.
MainInCall ==
    \/ EnqueueAppend
    \/ DestroyShutdown
    \/ DestroyJoin

\* Fair scheduling: a thread that can run eventually runs, and a thread that
\* is blocked on pthread_mutex_lock gets the mutex if it is released again and
\* again (strong fairness, since the lock step is disabled while another
\* thread holds the mutex).  The calling thread is not obliged to start a
\* call, but it finishes the critical section it is in.  Spurious wake-ups
\* are never owed to anybody.
SpecPoolFair ==
    /\ SpecPool
    /\ \A w \in Workers : SF_vars(WorkerStep(w) /\ UNCHANGED <<treeVars, chunkVars, planetVars, leafVars, utilVars, pureVars>>)
    /\ SF_vars(WaitAllProgress /\ UNCHANGED <<treeVars, chunkVars, planetVars, leafVars, utilVars, pureVars>>)
    /\ WF_vars(MainInCall /\ UNCHANGED <<treeVars, chunkVars, planetVars, leafVars, utilVars, pureVars>>)

NextTree ==
    \/ TreeCreate /\ UNCHANGED <<poolVars, chunkVars, planetVars, leafVars, utilVars, pureVars>>
    \/ TreeInsert /\ UNCHANGED <<poolVars, chunkVars, planetVars, leafVars, utilVars, pureVars>>

SpecTree == Init /\ [][NextTree]_vars

\* Several threads in ThreadPool_WaitAll at once; the pool is not destroyed
\* while a call is under way.
NextWaiters ==
    \/ \E w \in Workers : WorkerStep(w) /\ UNCHANGED <<treeVars, chunkVars, planetVars, leafVars, utilVars, pureVars>>
    \/ EnqueueLock /\ UNCHANGED <<treeVars, chunkVars, planetVars, leafVars, utilVars, pureVars>>
    \/ EnqueueAppend /\ UNCHANGED <<treeVars, chunkVars, planetVars, leafVars, utilVars, pureVars>>
    \/ MainWaitAllStep /\ UNCHANGED <<treeVars, chunkVars, planetVars, leafVars, utilVars, pureVars>>
    \/ \E t \in Waiters : WaiterLock(t) /\ UNCHANGED <<treeVars, chunkVars, planetVars, leafVars, utilVars, pureVars>>
    \/ \E t \in Waiters : WaiterCheck(t) /\ UNCHANGED <<treeVars, chunkVars, planetVars, leafVars, utilVars, pureVars>>
    \/ \E w \in Workers : WorkerSpuriousWake(w) /\ UNCHANGED <<treeVars, chunkVars, planetVars, leafVars, utilVars, pureVars>>
    \/ WaitAllSpuriousWake /\ UNCHANGED <<treeVars, chunkVars, planetVars, leafVars, utilVars, pureVars>>
    \/ \E t \in Waiters : WaiterSpuriousWake(t) /\ UNCHANGED <<treeVars, chunkVars, planetVars, leafVars, utilVars, pureVars>>

SpecWaiters == Init /\ [][NextWaiters]_vars

\* Progress of ThreadPool_WaitAll in thread t once the call has started.
WaiterProgress(t) ==
    \/ (xpc[t] = "waLock" /\ WaiterLock(t))
    \/ WaiterCheck(t)

\* Fair scheduling as in SpecPoolFair, for the further callers too.  No
\* thread is obliged to start a call; wake-ups come from signals only.
SpecWaitersFair ==
    /\ SpecWaiters
    /\ \A w \in Workers : SF_vars(WorkerStep(w) /\ UNCHANGED <<treeVars, chunkVars, planetVars, leafVars, utilVars, pureVars>>)
    /\ SF_vars(WaitAllProgress /\ UNCHANGED <<treeVars, chunkVars, planetVars, leafVars, utilVars, pureVars>>)
    /\ WF_vars(EnqueueAppend /\ UNCHANGED <<treeVars, chunkVars, planetVars, leafVars, utilVars, pureVars>>)
    /\ \A t \in Waiters : SF_vars(WaiterProgress(t) /\ UNCHANGED <<treeVars, chunkVars, planetVars, leafVars, utilVars, pureVars>>)

\* ThreadPool_Create, thread by thread, with the workers it has started
\* running; then the life of the pool, or ThreadPool_Destroy called by
\* ThreadPool_Create when a pthread_create has failed.
NextCreate ==
    \/ CreateThread /\ UNCHANGED <<treeVars, chunkVars, planetVars, leafVars, utilVars, pureVars>>
    \/ CreateFail /\ UNCHANGED <<treeVars, chunkVars, planetVars, leafVars, utilVars, pureVars>>
    \/ NextPool

InitCreate ==
    /\ InitPoolCreate /\ InitTree /\ InitChunks /\ InitPlanet /\ InitLeaves
    /\ InitUtils /\ InitPure

SpecCreate == InitCreate /\ [][NextCreate]_vars

NextChunk ==
    \/ ChunkApiCreate /\ UNCHANGED <<poolVars, treeVars, planetVars, leafVars, utilVars, pureVars>>
    \/ ChunkApiGenerateMesh /\ UNCHANGED <<poolVars, treeVars, planetVars, leafVars, utilVars, pureVars>>
    \/ ChunkApiShow /\ UNCHANGED <<poolVars, treeVars, planetVars, leafVars, utilVars, pureVars>>
    \/ ChunkApiHide /\ UNCHANGED <<poolVars, treeVars, planetVars, leafVars, utilVars, pureVars>>
    \/ ChunkApiRender /\ UNCHANGED <<poolVars, treeVars, planetVars, leafVars, utilVars, pureVars>>
    \/ ChunkApiDestroy /\ UNCHANGED <<poolVars, treeVars, planetVars, leafVars, utilVars, pureVars>>

SpecChunk == Init /\ [][NextChunk]_vars

NextPlanet ==
    \/ PlanetUpdate /\ UNCHANGED <<poolVars, treeVars, leafVars, utilVars, pureVars>>
    \/ PlanetDestroy /\ UNCHANGED <<poolVars, treeVars, leafVars, utilVars, pureVars>>

SpecPlanet == Init /\ [][NextPlanet]_vars

NextLeaves ==
    \/ ScanStart /\ UNCHANGED <<poolVars, treeVars, chunkVars, planetVars, utilVars, pureVars>>
    \/ ScanVisit /\ UNCHANGED <<poolVars, treeVars, chunkVars, planetVars, utilVars, pureVars>>
    \/ CubeStart /\ UNCHANGED <<poolVars, treeVars, chunkVars, planetVars, utilVars, pureVars>>
    \/ CubeFace /\ UNCHANGED <<poolVars, treeVars, chunkVars, planetVars, utilVars, pureVars>>

SpecLeaves == Init /\ [][NextLeaves]_vars

NextUtils ==
    \/ MapCreate /\ UNCHANGED <<poolVars, treeVars, chunkVars, planetVars, leafVars, pureVars>>
    \/ MapInsert /\ UNCHANGED <<poolVars, treeVars, chunkVars, planetVars, leafVars, pureVars>>
    \/ MapGet /\ UNCHANGED <<poolVars, treeVars, chunkVars, planetVars, leafVars, pureVars>>
    \/ MapRemove /\ UNCHANGED <<poolVars, treeVars, chunkVars, planetVars, leafVars, pureVars>>
    \/ MapClear /\ UNCHANGED <<poolVars, treeVars, chunkVars, planetVars, leafVars, pureVars>>
    \/ PoolCreate /\ UNCHANGED <<poolVars, treeVars, chunkVars, planetVars, leafVars, pureVars>>
    \/ PoolRelease /\ UNCHANGED <<poolVars, treeVars, chunkVars, planetVars, leafVars, pureVars>>
    \/ PoolAcquire /\ UNCHANGED <<poolVars, treeVars, chunkVars, planetVars, leafVars, pureVars>>

SpecUtils == Init /\ [][NextUtils]_vars

NextMaps ==
    \/ StrMapsCreate /\ UNCHANGED <<poolVars, treeVars, chunkVars, planetVars, leafVars, utilVars>>
    \/ StrMapsPut /\ UNCHANGED <<poolVars, treeVars, chunkVars, planetVars, leafVars, utilVars>>
    \/ StrMapsDiff /\ UNCHANGED <<poolVars, treeVars, chunkVars, planetVars, leafVars, utilVars>>

SpecMaps == Init /\ [][NextMaps]_vars

NextSkirt ==
    \/ SkirtGenerate /\ UNCHANGED <<poolVars, treeVars, chunkVars, planetVars, leafVars, utilVars>>
    \/ SkirtFix /\ UNCHANGED <<poolVars, treeVars, chunkVars, planetVars, leafVars, utilVars>>

SpecSkirt == Init /\ [][NextSkirt]_vars

(***************************************************************************)
(*                              Claims                                     *)
(***************************************************************************)

\* C1: ThreadPool_WaitAll returns only when every job enqueued before the call
\* has finished: at the moment it returns queueSize = 0, activeThreads = 0
\* and the number of completed jobs equals the number of enqueued jobs.
C1_WaitAllReturnsAfterAllJobs ==
    mpc = "waReturned" =>
        /\ queueSize = 0
        /\ activeThreads = 0
        /\ SumExecuted(MaxJobs) = Enqueued

\* A ThreadPool_WaitAll call has returned after several jobs were enqueued
\* and run.
C1_Witness ==
    /\ mpc = "waReturned"
    /\ Enqueued >= 2
    /\ SumExecuted(MaxJobs) = Enqueued

\* C5: under fair scheduling, with terminating jobs and at least one worker,
\* every call of ThreadPool_WaitAll eventually returns.
C5_WaitAllEventuallyReturns ==
    (mpc \in {"waCheck", "waWait", "waLock"}) ~> (mpc = "waReturned")

\* The caller is blocked in pthread_cond_wait(&workComplete) while a job is
\* still running: the case in which it depends on the worker's signal.
C5_Witness ==
    /\ mpc = "waWait"
    /\ activeThreads > 0


\* C6: after Quadtree_Insert for any viewer position, every node of the tree
\* has size.x >= minNodeSize, for any minNodeSize > 0 that does not exceed the
\* size of the root.
C6_NoNodeBelowMinNodeSize ==
    (tree # NoTree /\ tree.minNodeSize > 0
        /\ tree.minNodeSize <= tree.nodes[<<>>].size[1]) =>
        \A p \in DOMAIN tree.nodes : tree.nodes[p].size[1] >= tree.minNodeSize

\* C7: after Quadtree_Insert for viewer position P, every leaf n has
\* distance(n.sphereCenter, P) >= n.size.x * comparatorValue or
\* n.size.x = minNodeSize.
C7_LeafStoppedByDistanceOrFloor ==
    (tree # NoTree /\ lastCamera # NoViewer) =>
        \A p \in DOMAIN tree.nodes :
            tree.nodes[p].isLeaf =>
                \/ ~DistLess(tree.nodes[p].world, tree.size, tree.origin, lastCamera,
                             tree.nodes[p].size[1], tree.comparatorValue)
                \/ tree.nodes[p].size[1] = tree.minNodeSize

\* The ids of the nodes of the current tree and of the tree before it.
TreeIds == IF tree = NoTree THEN prevIds ELSE prevIds \cup IdsOf(tree.nodes)

\* C8: two nodes with the same faceId, bounds.min.x, bounds.min.y and size.x
\* have the same id, in one tree and across two separately constructed trees.
C8_IdDeterministic ==
    \A a \in TreeIds, b \in TreeIds :
        (a[1] = b[1] /\ a[2] = b[2] /\ a[3] = b[3] /\ a[4] = b[4]) => a[5] = b[5]

\* A node below the root of the current tree covers the same rectangle of the
\* same face as a node of the previous tree, which had another radius.
C8_Witness ==
    /\ tree # NoTree
    /\ \E a \in prevIds, p \in DOMAIN tree.nodes :
          /\ p # <<>>
          /\ a[1] = tree.nodes[p].faceId
          /\ a[2] = tree.nodes[p].bounds.min[1]
          /\ a[3] = tree.nodes[p].bounds.min[2]
          /\ a[4] = tree.nodes[p].size[1]
          /\ \E r \in prevIds : r[1] = a[1] /\ r[4] > a[4] /\ r[4] # 2 * tree.size

(***************************************************************************)
(*                     Claims about planet.c and chunk.c                   *)
(***************************************************************************)
ActiveSlots(map) == {i \in 1..MAX_CHUNKS : map[i].active}

\* The key of the patch a chunk was built for.
KeyOfChunk(chunk) == Planet_MakeChunkKey(chunk.transform, chunk.offset, chunk.width)

\* The chunks held for re-use: struct Planet has no ChunkPool and neither
\* Planet_Update nor Planet_RemoveChunk calls ChunkPool_Release.
PooledChunks == {}

\* C2: across two consecutive Planet_Update calls, every key that is a leaf
\* key in both frames keeps the Chunk object it had: the table still maps the
\* key to that chunk, the chunk was not destroyed, and no chunk was created
\* for the key again.
C2_StableKeysKeepTheirChunk ==
    frame.n = 2 =>
        \A k \in frame.leafKeys \cap frame.prevLeafKeys :
            /\ \A i \in ActiveSlots(frame.prevMap) :
                  frame.prevMap[i].key = k =>
                      /\ frame.prevMap[i].chunk \notin frame.destroyed
                      /\ \E j \in ActiveSlots(chunkMap) :
                            /\ chunkMap[j].key = k
                            /\ chunkMap[j].chunk = frame.prevMap[i].chunk
            /\ \A c \in frame.created : KeyOfChunk(heap[c]) # k

\* C3: after one Planet_Update, every chunk that was in the table before the
\* call is in exactly one of the table and the chunk pool, and is not freed.
C3_OldChunksInMapOrPool ==
    frame.n >= 1 =>
        \A i \in ActiveSlots(frame.prevMap) :
            LET c == frame.prevMap[i].chunk
                live == \E j \in ActiveSlots(chunkMap) : chunkMap[j].chunk = c
                pooled == c \in PooledChunks
            IN  /\ c \in DOMAIN heap
                /\ live # pooled

\* C4: no two active entries of the chunk table ever hold the same key.
C4_ActiveKeysUnique ==
    \A i, j \in ActiveSlots(chunkMap) :
        chunkMap[i].key = chunkMap[j].key => i = j

\* C9: when an update retired K chunks and the next update requests K new
\* patches, that next update allocates no chunk (all K come from the pool).
C9_ReuseWithoutAllocation ==
    (frame.n = 2 /\ frame.prevRetired >= 1 /\ frame.requested = frame.prevRetired)
        => Cardinality(frame.created) = 0

\* C10: a chunk whose meshGenerated flag is set never goes back to
\* not-generated while it exists (no operation clears the flag).
C10_MeshGeneratedNeverRegresses ==
    [][\A c \in DOMAIN heap \cap DOMAIN heap' :
           heap[c].meshGenerated => heap'[c].meshGenerated]_vars

\* C10 witness: Chunk_GenerateMesh was called again on a generated chunk, it
\* returned early, and the chunk still counts as generated.
C10_Witness ==
    /\ lastCall.op = "Chunk_GenerateMesh"
    /\ lastCall.wasGenerated
    /\ GenerateFails(ApiProps(lastCall.resolution))
    /\ lastCall.chunk \in DOMAIN heap
    /\ heap[lastCall.chunk].meshGenerated

(***************************************************************************)
(*                       Further claims about quadtree.c                   *)
(***************************************************************************)

\* C11: constructing a quadtree with comparatorValue <= 0 is rejected: no
\* usable tree is built, so every tree that exists has comparatorValue > 0.
C11_NonPositiveComparatorRejected ==
    tree # NoTree => tree.comparatorValue[1] > 0

\* C15: a root whose size.x is at or below minNodeSize is never split: after
\* Quadtree_Insert for any viewer position the tree is the root alone and the
\* leaf enumeration returns exactly one node, the root.
C15_SmallRootNeverSplit ==
    (tree # NoTree /\ lastCamera # NoViewer
        /\ tree.nodes[<<>>].size[1] <= tree.minNodeSize) =>
        /\ DOMAIN tree.nodes = {<<>>}
        /\ tree.nodes[<<>>].isLeaf
        /\ Quadtree_GetLeafNodes(tree) = << tree.nodes[<<>>] >>

\* C15 witness: Quadtree_Insert ran on a tree whose root is exactly at the
\* floor, for a viewer close enough to pass the distance test of the root.
C15_Witness ==
    /\ tree # NoTree
    /\ lastCamera # NoViewer
    /\ tree.nodes[<<>>].size[1] = tree.minNodeSize
    /\ DistLess(tree.nodes[<<>>].world, tree.size, tree.origin, lastCamera,
                tree.nodes[<<>>].size[1], tree.comparatorValue)

(***************************************************************************)
(*                     Further claims about thread_pool.c                  *)
(***************************************************************************)
\* The item is linked in the queue.
InQueue(i) == i \in QueueItems(itemNext, workQueueHead)

\* The item has been popped by a worker (it is being run or has been run).
Started(i) == executed[i] > 0 \/ \E w \in Workers : witem[w] = i

\* The items ThreadPool_Enqueue has appended so far; ThreadPool_Enqueue
\* numbers them in the order of the calls.
Appended == {i \in 1..(nextItem - 1) : i # mitem}

\* C12: once ThreadPool_Destroy has set shutdown and broadcast workAvailable,
\* every worker eventually leaves its loop (so every join completes), whether
\* it was waiting for work or running a job.
C12_DestroyWorkersExit ==
    shutdown ~> (\A w \in Workers : wpc[w] = "exited")

\* C12 witness: ThreadPool_Destroy is joining while one worker has already
\* left its loop and another one is still busy with a job.
C12_Witness ==
    /\ mpc = "join"
    /\ \E w \in Workers : wpc[w] = "exited"
    /\ \E w \in Workers : wpc[w] \in {"run", "doneLock", "done"}

\* C13: jobs leave the queue in FIFO order: when a job has been popped, every
\* job enqueued before it has been popped too.
C13_FifoOrder ==
    \A a \in Appended, b \in Appended : (a < b /\ Started(b)) => Started(a)

\* C13 witness: the first job is finished, a worker runs the second one and
\* the third one is queued behind them.
C13_Witness ==
    /\ executed[1] = 1
    /\ \E w \in Workers : witem[w] = 2 /\ wpc[w] = "run"
    /\ InQueue(3)

\* C19: while the pool is alive every enqueued job is in exactly one place:
\* queued, popped by exactly one worker that is about to run it, or run
\* exactly once; no item is held by two workers.
C19_ExactlyOnce ==
    mpc # "destroyed" =>
        \A i \in Appended :
            /\ (IF InQueue(i) THEN 1 ELSE 0)
                 + Cardinality({w \in Workers : witem[w] = i /\ wpc[w] = "run"})
                 + executed[i] = 1
            /\ Cardinality({w \in Workers : witem[w] = i}) <= 1

\* C19 witness: two workers run two different jobs at the same time after a
\* first job has been run.
C19_Witness ==
    /\ \A w \in Workers : wpc[w] = "run"
    /\ \E i \in Appended : executed[i] = 1

\* C20: a job that is in the queue of a pool that is not shut down is
\* eventually started by some worker (no wake-up is lost).
C20_EnqueuedEventuallyStarted ==
    \A i \in Items : (InQueue(i) /\ ~shutdown) ~> Started(i)

\* C20 witness: a job is queued while every worker is busy running another
\* job, so the signal of ThreadPool_Enqueue found no worker waiting.
C20_Witness ==
    /\ \A w \in Workers : wpc[w] = "run"
    /\ \E i \in Items : InQueue(i)

(***************************************************************************)
(*                  Further claims about planet.c and chunk.c              *)
(***************************************************************************)

\* C14: chunkCount never exceeds MAX_CHUNKS and the table keeps its
\* MAX_CHUNKS slots; a Planet_AddChunk call that finds the table full leaves
\* the table and chunkCount as they were (the chunk is in no slot), and
\* Planet_Update completes all the same.
C14_FullTableUnchanged ==
    /\ chunkCount \in 0..MAX_CHUNKS
    /\ DOMAIN chunkMap = 1..MAX_CHUNKS
    /\ frame.n >= 1 =>
          \A r \in frame.full :
              /\ r.unchanged
              /\ \A i \in ActiveSlots(chunkMap) : chunkMap[i].chunk # r.chunk

\* C14 witness: a Planet_Update has completed in which Planet_AddChunk found
\* the table full.
C14_Witness ==
    /\ frame.n >= 1
    /\ frame.full # {}

C17_FreedOnlyAfterWaitAll ==
    /\ (frame.n >= 1 /\ frame.destroyed # {}) => (queueSize = 0 /\ activeThreads = 0)
    /\ teardown.done =>
          /\ queueSize = 0 /\ activeThreads = 0
          /\ teardown.afterWaitAll


(***************************************************************************)
(*                     Approach and resident chunks                        *)
(***************************************************************************)
\* All nodes, inner ones included, of the tree of face f subdivided for
\* lodOrigin.
FaceNodes(planet, f, lodOrigin) ==
    LET t == Quadtree_Insert(
                 Quadtree_Create(planet.radius, planet.minCellSize,
                                 planet.lodDistanceComparisonValue, planet.position, f),
                 lodOrigin)
    IN  { t.nodes[p] : p \in DOMAIN t.nodes }

\* Vector3Distance(sphereCenter, to) <= Vector3Distance(sphereCenter, from)
\* for sphereCenter = normalize(world) * radius + origin (quadtree.c:45-48),
\* compared exactly: with Q1 = from - origin and Q2 = to - origin the squared
\* distances differ by |Q1|^2 - |Q2|^2 - 2 radius world . (Q1 - Q2) / |world|.
NotFarther(world, radius, origin, from, to) ==
    LET Q1 == << from[1] - origin[1], from[2] - origin[2], from[3] - origin[3] >>
        Q2 == << to[1] - origin[1], to[2] - origin[2], to[3] - origin[3] >>
        a == Dot(Q1, Q1) - Dot(Q2, Q2)
        b == 2 * radius * (Dot(world, Q1) - Dot(world, Q2))
        W == Dot(world, world)
    IN  IF a >= 0 /\ b <= 0 THEN TRUE
        ELSE IF a < 0 /\ b >= 0 THEN FALSE
        ELSE IF a >= 0 THEN b * b <= a * a * W
        ELSE b * b >= a * a * W

\* The viewer moved from "from" to "to" without getting farther from the
\* sphereCenter of any node of the trees of either frame.
Approaches(planet, from, to) ==
    \A f \in 0..(CUBE_FACES - 1) :
        \A n \in FaceNodes(planet, f, from) \cup FaceNodes(planet, f, to) :
            NotFarther(n.world, planet.radius, planet.position, from, to)

\* C18: when the viewer's distance to every node's sphereCenter did not
\* increase from the previous update to this one, the number of resident
\* chunks after this update is at least the number after the previous one.
C18_ApproachKeepsChunks ==
    (frame.n = 2 /\ ~teardown.done
        /\ Approaches(PlanetConfig, frame.prevLodOrigin, frame.lodOrigin))
    => chunkCount >= frame.prevCount



(***************************************************************************)
(*                     Jobs run outside the lock                           *)
(***************************************************************************)
\* C21: a worker that is inside item->function does not own queueMutex, so
\* while every worker is busy the mutex is free or held by the calling
\* thread (ThreadPool_Enqueue and the other callers can take it).
C21_JobRunsOutsideLock ==
    /\ \A w \in Workers : wpc[w] = "run" => queueMutex # w
    /\ (\A w \in Workers : wpc[w] = "run") => queueMutex \in {MutexFree, MainThread}

\* C21 witness: every worker is running a job and the calling thread is
\* inside ThreadPool_Enqueue with the mutex.
C21_Witness ==
    /\ \A w \in Workers : wpc[w] = "run"
    /\ mpc = "enqueue"
    /\ queueMutex = MainThread



(***************************************************************************)
(*                    The table after Planet_Update                        *)
(***************************************************************************)
\* The keys of the active entries of the table.
ActiveKeys(map) == { map[i].key : i \in ActiveSlots(map) }

\* C22: after a Planet_Update whose frame has at most MAX_CHUNKS leaves, the
\* active keys of the table are exactly the leaf keys of the frame, each in
\* exactly one active slot, whatever updates came before.
C22_MapIsExactlyTheLeaves ==
    (frame.n >= 1 /\ ~teardown.done /\ Cardinality(frame.leafKeys) <= MAX_CHUNKS) =>
        /\ ActiveKeys(chunkMap) = frame.leafKeys
        /\ \A i, j \in ActiveSlots(chunkMap) :
               chunkMap[i].key = chunkMap[j].key => i = j



(***************************************************************************)
(*                     The shape of the quadtree                           *)
(***************************************************************************)
\* children[i] of the node at path p that are not NULL
ChildrenOf(nodes, p) == { i \in 0..3 : Append(p, i) \in DOMAIN nodes }

\* C23: in every tree state a node has isLeaf = true iff all four children
\* are absent, and a node with isLeaf = false has all four children.
C23_LeafIffNoChildren ==
    tree # NoTree =>
        \A p \in DOMAIN tree.nodes :
            /\ tree.nodes[p].isLeaf <=> ChildrenOf(tree.nodes, p) = {}
            /\ ~tree.nodes[p].isLeaf => ChildrenOf(tree.nodes, p) = 0..3

\* C23 witness: a tree with a split node below the root and leaves next to it.
C23_Witness ==
    /\ tree # NoTree
    /\ \E p \in DOMAIN tree.nodes : Len(p) = 1 /\ ~tree.nodes[p].isLeaf
    /\ \E p \in DOMAIN tree.nodes : Len(p) = 1 /\ tree.nodes[p].isLeaf

\* C24: Quadtree_Insert never removes a node and never turns a non-leaf back
\* into a leaf: the node set after each call on the same tree contains the
\* node set before it.
C24_SplitMonotonic ==
    [][ (tree # NoTree /\ lastCamera' # NoViewer) =>
            /\ DOMAIN tree.nodes \subseteq DOMAIN tree'.nodes
            /\ \A p \in DOMAIN tree.nodes :
                  /\ ~tree.nodes[p].isLeaf => ~tree'.nodes[p].isLeaf
                  /\ tree'.nodes[p].bounds = tree.nodes[p].bounds
                  /\ tree'.nodes[p].id = tree.nodes[p].id ]_vars

\* C24 witness: the tree is subdivided although the viewer of the latest
\* Quadtree_Insert is too far away to split even the root (an earlier call
\* with a nearer viewer made the nodes, and the later call kept them).
C24_Witness ==
    /\ tree # NoTree
    /\ lastCamera # NoViewer
    /\ ~tree.nodes[<<>>].isLeaf
    /\ ~SplitCondition(tree.nodes[<<>>], lastCamera, tree.minNodeSize,
                       tree.comparatorValue, tree.size, tree.origin)

\* C25: the four children of a split node have the bounds [min, center],
\* [(center.x, min.y), (max.x, center.y)], [(min.x, center.y), (center.x,
\* max.y)] and [center, max] of the parent, half its size in x and in y, and
\* its faceId.
C25_ChildrenAreQuadrants ==
    tree # NoTree =>
        \A p \in DOMAIN tree.nodes :
            ~tree.nodes[p].isLeaf =>
                LET n == tree.nodes[p]
                    c == [i \in 0..3 |-> tree.nodes[Append(p, i)]]
                IN  /\ c[0].bounds = [min |-> n.bounds.min, max |-> n.center]
                    /\ c[1].bounds = [min |-> <<n.center[1], n.bounds.min[2]>>,
                                      max |-> <<n.bounds.max[1], n.center[2]>>]
                    /\ c[2].bounds = [min |-> <<n.bounds.min[1], n.center[2]>>,
                                      max |-> <<n.center[1], n.bounds.max[2]>>]
                    /\ c[3].bounds = [min |-> n.center, max |-> n.bounds.max]
                    /\ \A i \in 0..3 :
                          /\ 2 * c[i].size[1] = n.size[1]
                          /\ 2 * c[i].size[2] = n.size[2]
                          /\ n.center \in {c[i].bounds.min, c[i].bounds.max,
                                           <<c[i].bounds.min[1], c[i].bounds.max[2]>>,
                                           <<c[i].bounds.max[1], c[i].bounds.min[2]>>}
                          /\ c[i].faceId = n.faceId

\* C25 witness: a node below the root has been split, on a face other than 0.
C25_Witness ==
    /\ tree # NoTree
    /\ tree.faceId # 0
    /\ \E p \in DOMAIN tree.nodes : Len(p) >= 1 /\ ~tree.nodes[p].isLeaf



(***************************************************************************)
(*                        Chunk teardown and drawing                       *)
(***************************************************************************)
\* C30: Chunk_Destroy is valid on a chunk in any lifecycle state: it calls
\* UnloadModel exactly when the chunk has a GPU model (meshGenerated is true
\* exactly then) and never on a chunk without one; Chunk_Render draws a chunk
\* only when it is both visible and meshGenerated.
C30_DestroyFromAnyState ==
    /\ \A c \in DOMAIN heap : heap[c].meshGenerated <=> heap[c].model = LoadedModel
    /\ lastCall.op = "Chunk_Destroy" =>
          /\ lastCall.chunk \notin DOMAIN heap
          /\ lastCall.unloaded <=> lastCall.model = LoadedModel
          /\ lastCall.unloaded <=> lastCall.wasGenerated
    /\ lastCall.op = "Chunk_Render" =>
          (lastCall.drew <=> (/\ heap[lastCall.chunk].visible
                              /\ heap[lastCall.chunk].meshGenerated))

\* C30 witness: a chunk whose generation had just returned early, and which
\* never had a mesh, was destroyed without a call of UnloadModel.
C30_Witness ==
    /\ lastCall.op = "Chunk_Destroy"
    /\ lastCall.afterFailedGeneration
    /\ ~lastCall.wasGenerated
    /\ ~lastCall.unloaded



(***************************************************************************)
(*                           Leaf enumeration                              *)
(***************************************************************************)
\* The nodes without children.
LeafPaths(nodes) == { p \in DOMAIN nodes : ChildrenOf(nodes, p) = {} }

\* C26: Quadtree_GetLeafNodes never writes at or past the capacity of the
\* output array, and when it returns the array holds exactly the nodes
\* without children, each once, and outCount is their number; this for trees
\* with more leaves than the initial capacity too.
C26_LeavesExactlyOnce ==
    scan.active =>
        /\ ~scan.overrun
        /\ scan.outCount = Len(scan.outNodes)
        /\ scan.outCount <= scan.capacity
        /\ Range(scan.outNodes) \subseteq LeafPaths(scan.nodes)
        /\ scan.stack = <<>> =>
              /\ Range(scan.outNodes) = LeafPaths(scan.nodes)
              /\ scan.outCount = Cardinality(LeafPaths(scan.nodes))
              /\ scan.outNodes = GetLeafNodesRecursive(scan.nodes, <<>>)

\* C26 witness: the enumeration of a tree with more leaves than the initial
\* capacity has returned, and the array was grown on the way.
C26_Witness ==
    /\ scan.active
    /\ scan.stack = <<>>
    /\ scan.outCount > INITIAL_LEAF_CAPACITY
    /\ scan.capacity > INITIAL_LEAF_CAPACITY

RECURSIVE SumSeq(_)
SumSeq(q) == IF q = <<>> THEN 0 ELSE Head(q) + SumSeq(Tail(q))

\* The nodes of the entries copied in round f, in order.
CopiedOfFace(outNodes, f) ==
    LET es == SelectSeq(outNodes, LAMBDA e : e.face = f)
    IN  [j \in 1..Len(es) |-> es[j].path]

\* C27: CubicQuadTree_GetLeafNodes returns the leaf lists of the six faces
\* one after the other in face order 0..5; outCount is the sum of the face
\* leaf counts, every node carries the faceId of the face it came from, and
\* the copy never writes at or past the capacity of the array.
C27_CubeLeavesConcatenated ==
    cube.active =>
        /\ ~cube.overrun
        /\ cube.outCount = Len(cube.outNodes)
        /\ cube.outCount <= cube.capacity
        /\ cube.outCount = SumSeq(cube.faceCounts)
        /\ \A j \in 1..Len(cube.outNodes) :
              /\ cube.outNodes[j].faceId = cube.outNodes[j].face
              /\ j > 1 => cube.outNodes[j - 1].face <= cube.outNodes[j].face
        /\ \A f \in 0..(cube.face - 1) :
              /\ CopiedOfFace(cube.outNodes, f) =
                    GetLeafNodesRecursive(CubeFaceTree(cube.cfg, f).nodes, <<>>)
              /\ cube.faceCounts[f + 1] = Len(CopiedOfFace(cube.outNodes, f))

\* C27 witness: all six faces were copied and the array had to be resized.
C27_Witness ==
    /\ cube.active
    /\ cube.face = CUBE_FACES
    /\ cube.capacity > CUBIC_LEAF_CAPACITY
    /\ cube.outCount > CUBIC_LEAF_CAPACITY



(***************************************************************************)
(*                     The ChunkMap as a finite map                        *)
(***************************************************************************)
\* what a finite map holds for the key, NULL when it holds nothing
RefGet(ref, key) == IF key \in DOMAIN ref THEN ref[key] ELSE NULL

\* C28: the chained-bucket ChunkMap is a finite map from 64-bit keys to chunk
\* pointers, for every sequence of Insert, Remove and Clear and every
\* capacity >= 1: ChunkMap_Get returns the value of the latest Insert of the
\* key not followed by its Remove or a Clear, NULL otherwise; an Insert on a
\* present key leaves count alone; Remove returns the stored chunk, or NULL
\* with no change when the key is absent; count is the number of distinct
\* keys present, each held by one entry of its own bucket.
C28_MapIsFiniteMap ==
    cmap.active =>
        /\ \A k \in MapKeys : ChunkMap_Get(cmap, k) = RefGet(cmapRef, k)
        /\ cmap.count = Cardinality(DOMAIN cmapRef)
        /\ \A b \in 1..cmap.capacity : \A i \in 1..Len(cmap.buckets[b]) :
               /\ Hash(cmap.buckets[b][i].key, cmap.capacity) + 1 = b
               /\ Matches(cmap.buckets[b], cmap.buckets[b][i].key) = {i}
        /\ (mapCall.op = "ChunkMap_Get") =>
               mapCall.result = RefGet(cmapRef, mapCall.key)
        /\ (mapCall.op = "ChunkMap_Insert"
              /\ mapCall.key \in DOMAIN mapCall.refBefore) =>
               cmap.count = mapCall.before.count
        /\ (mapCall.op = "ChunkMap_Remove") =>
               /\ mapCall.result = RefGet(mapCall.refBefore, mapCall.key)
               /\ (mapCall.key \notin DOMAIN mapCall.refBefore) =>
                      cmap = mapCall.before

\* A Remove has just returned the chunk of a key that shared its bucket with
\* another key, in a map of more than one bucket where the keys 0 and 2^32
\* are both present with different chunks.
C28_Witness ==
    /\ cmap.active
    /\ cmap.capacity > 1
    /\ mapCall.op = "ChunkMap_Remove"
    /\ mapCall.result # NULL
    /\ Len(mapCall.before.buckets[Hash(mapCall.key, cmap.capacity) + 1]) >= 2
    /\ <<0, 0, 0, 0>> \in DOMAIN cmapRef
    /\ <<0, 0, 1, 0>> \in DOMAIN cmapRef
    /\ cmapRef[<<0, 0, 0, 0>>] # cmapRef[<<0, 0, 1, 0>>]


(***************************************************************************)
(*                     The ChunkPool as a stack                            *)
(***************************************************************************)
\* C29: ChunkPool_Acquire on an empty pool returns NULL and leaves the pool
\* unchanged; on a non-empty pool it returns the most recently released chunk
\* and removes it; after any sequence of releases of distinct chunks and
\* acquires the pool holds exactly the chunks released and not yet acquired.
C29_PoolIsLifoStack ==
    cpool.active =>
        /\ ~cpool.crashed
        /\ cpool.count = Len(poolRef)
        /\ cpool.chunks = poolRef
        /\ (poolCall.op = "ChunkPool_Acquire") =>
               IF poolCall.refBefore = <<>>
               THEN poolCall.result = NULL /\ cpool = poolCall.before
               ELSE /\ poolCall.result =
                          poolCall.refBefore[Len(poolCall.refBefore)]
                    /\ cpool.count = poolCall.before.count - 1


(***************************************************************************)
(*                     The ChunkPool array                                 *)
(***************************************************************************)
\* C40: ChunkPool_Release never writes outside the pool's array: for every
\* initialCapacity >= 0 and every sequence of Release and Acquire,
\* 0 <= count <= capacity after each operation, and the slot a Release
\* writes has an index below the capacity.
C40_ReleaseStaysInArray ==
    cpool.active =>
        /\ 0 <= cpool.count
        /\ cpool.count <= cpool.capacity
        /\ (poolCall.op = "ChunkPool_Release") =>
               /\ poolCall.inBounds
               /\ poolCall.index < cpool.capacity


(***************************************************************************)
(*                     Leaf ids within one frame                           *)
(***************************************************************************)
\* what HashChunkKey is given for a node: face index and face-local rectangle
KeyInput(node) ==
    << node.faceId, node.bounds.min[1], node.bounds.min[2], node.size[1] >>

\* C35: within one frame, two leaves that differ in face index or in
\* face-local rectangle (bounds.min.x, bounds.min.y, size.x) never have the
\* same id.
C35_LeafIdsInjective ==
    scan.active =>
        LET leaves == LeafPaths(scan.nodes)
        IN  \A p \in leaves : \A q \in leaves :
                (KeyInput(scan.nodes[p]) # KeyInput(scan.nodes[q])) =>
                    scan.nodes[p].id # scan.nodes[q].id


(***************************************************************************)
(*                     The leaves tile the face                            *)
(***************************************************************************)
\* Do the interiors of two rectangles meet?
Overlap(a, b) ==
    /\ a.min[1] < b.max[1] /\ b.min[1] < a.max[1]
    /\ a.min[2] < b.max[2] /\ b.min[2] < a.max[2]

\* Is rectangle a inside rectangle b?
Inside(a, b) ==
    /\ b.min[1] <= a.min[1] /\ a.max[1] <= b.max[1]
    /\ b.min[2] <= a.min[2] /\ a.max[2] <= b.max[2]

Area(b) == (b.max[1] - b.min[1]) * (b.max[2] - b.min[2])

\* C37: after any sequence of Quadtree_Insert calls the leaves tile the root
\* rectangle: the leaf rectangles lie in the root bounds, no two of them
\* overlap, and their areas add up to the area of the root (so their union
\* is the root rectangle).
C37_LeavesTileRoot ==
    (tree # NoTree) =>
        LET leaves == Quadtree_GetLeafNodes(tree)
            root == tree.nodes[<<>>].bounds
        IN  /\ \A i \in 1..Len(leaves) : Inside(leaves[i].bounds, root)
            /\ \A i \in 1..Len(leaves) : \A j \in 1..Len(leaves) :
                   (i # j) => ~Overlap(leaves[i].bounds, leaves[j].bounds)
            /\ SumSeq([i \in 1..Len(leaves) |-> Area(leaves[i].bounds)]) = Area(root)

\* The tree was split unevenly by more than one Quadtree_Insert: leaves of
\* two sizes tile the root.
C37_Witness ==
    /\ tree # NoTree
    /\ lastCamera # NoViewer
    /\ LET leaves == Quadtree_GetLeafNodes(tree)
       IN  /\ Len(leaves) >= 7
           /\ \E i, j \in 1..Len(leaves) : leaves[i].size[1] # leaves[j].size[1]


(***************************************************************************)
(*                 Chunks created by Planet_Update                         *)
(***************************************************************************)
\* C34: when Planet_Update returns, every chunk it created is referenced by
\* an active entry of the table or has been destroyed; a chunk that
\* Planet_AddChunk refused because the table was full is not left allocated
\* and unreferenced.
C34_CreatedChunksOwnedOrFreed ==
    (frame.n >= 1 /\ ~teardown.done) =>
        \A c \in frame.created :
            \/ \E i \in ActiveSlots(chunkMap) : chunkMap[i].chunk = c
            \/ c \notin DOMAIN heap


(***************************************************************************)
(*                 A pthread_create that fails                             *)
(***************************************************************************)
\* C38: when pthread_create fails for a worker inside ThreadPool_Create, the
\* ThreadPool_Destroy it calls comes to its end, and it has joined exactly
\* the workers that had been started: no thread that was never created is
\* joined.
C38_FailedCreateJoinsStarted ==
    (created # Workers /\ mpc \in {"destroyed", "crashed"}) =>
        /\ joined = created
        /\ mpc = "destroyed"


(***************************************************************************)
(*                 Shutdown drains the queue                               *)
(***************************************************************************)
\* C33: a worker has exited only with shutdown set and the queue empty; when
\* the joins of ThreadPool_Destroy are through, the queue is empty, every job
\* that was queued when shutdown was set has been executed (once), and
\* no job was discarded unexecuted.
C33_ShutdownDrainsQueue ==
    /\ \A w \in Workers :
           wpc[w] = "exited" => (shutdown /\ workQueueHead = NULL /\ queueSize = 0)
    /\ mpc = "destroyed" =>
           /\ workQueueHead = NULL
           /\ queueSize = 0
           /\ discarded = {}
           /\ \A i \in queuedAtShutdown : executed[i] = 1

\* ThreadPool_Destroy came to its end for a pool that had jobs in the queue
\* when shutdown was set.
C33_Witness ==
    /\ mpc = "destroyed"
    /\ Cardinality(queuedAtShutdown) >= 2
    /\ \A w \in Workers : wpc[w] = "exited"


(***************************************************************************)
(*                 The pool with queueMutex free                           *)
(***************************************************************************)
\* The workers between popping a job (line 32) and the decrement of
\* activeThreads (line 43).
BusyWorkers == { w \in Workers : wpc[w] \in {"run", "doneLock", "done"} }

\* C39: whenever queueMutex is free, queueSize is the length of the list from
\* workQueueHead; workQueueHead is NULL iff workQueueTail is NULL iff
\* queueSize = 0; workQueueTail is the last element of the list;
\* 0 <= activeThreads <= threadCount, and activeThreads is the number of
\* workers between popping a job and finishing it.
C39_PoolInvariant ==
    (queueMutex = MutexFree) =>
        LET list == QueueItems(itemNext, workQueueHead)
        IN  /\ queueSize = Cardinality(list)
            /\ (workQueueHead = NULL) <=> (workQueueTail = NULL)
            /\ (workQueueTail = NULL) <=> (queueSize = 0)
            /\ workQueueTail # NULL =>
                   (workQueueTail \in list /\ itemNext[workQueueTail] = NULL)
            /\ 0 <= activeThreads /\ activeThreads <= NumWorkers
            /\ activeThreads = Cardinality(BusyWorkers)

\* The mutex is free while both workers run a job and a further job is
\* queued.
C39_Witness ==
    /\ queueMutex = MutexFree
    /\ queueSize = 1
    /\ workQueueHead # NULL
    /\ activeThreads = NumWorkers
    /\ BusyWorkers = Workers


(***************************************************************************)
(*                 Several callers of ThreadPool_WaitAll                   *)
(***************************************************************************)
\* C36: when several threads call ThreadPool_WaitAll concurrently, each of
\* them returns: a caller that is blocked on workComplete is not left
\* blocked forever by the single pthread_cond_signal per finished job.
C36_EveryWaiterReturns ==
    /\ (mpc = "waWait") ~> (mpc = "waReturned")
    /\ \A t \in Waiters : (xpc[t] = "waWait") ~> (xpc[t] = "waReturned")


(***************************************************************************)
(*          ChunkMap_Intersection and ChunkMap_Difference                  *)
(***************************************************************************)
\* The keys of a string-keyed map.
StrMapKeys(map) == { map.entries[i].key : i \in DOMAIN map.entries }

\* C31: ChunkMap_Intersection(a, b) and ChunkMap_Difference(a, b) partition
\* a: their key sets are disjoint and their union is the key set of a, each
\* entry of a result has the chunk the key has in a, the intersection holds
\* exactly the keys of a that are also in b, the two counts add up to the
\* count of a, and a and b are as they were before the calls.
C31_IntersectionDifferencePartition ==
    (smaps.active /\ smaps.op = "diff") =>
        LET a == smaps.before.a
            b == smaps.before.b
        IN  /\ StrMapKeys(smaps.inter) \cap StrMapKeys(smaps.diff) = {}
            /\ StrMapKeys(smaps.inter) \cup StrMapKeys(smaps.diff) = StrMapKeys(a)
            /\ \A k \in StrMapKeys(smaps.inter) :
                   StrChunkMap_Get(smaps.inter, k) = StrChunkMap_Get(a, k)
            /\ \A k \in StrMapKeys(smaps.diff) :
                   StrChunkMap_Get(smaps.diff, k) = StrChunkMap_Get(a, k)
            /\ StrMapKeys(smaps.inter) = StrMapKeys(a) \cap StrMapKeys(b)
            /\ smaps.inter.count = Cardinality(StrMapKeys(smaps.inter))
            /\ smaps.diff.count = Cardinality(StrMapKeys(smaps.diff))
            /\ Len(smaps.inter.entries) = smaps.inter.count
            /\ Len(smaps.diff.entries) = smaps.diff.count
            /\ smaps.inter.count + smaps.diff.count = a.count
            /\ smaps.a = a
            /\ smaps.b = b

\* Both results are non-empty, b has a key that a lacks, and a key of both
\* maps has different chunks in a and in b.
C31_Witness ==
    /\ smaps.active
    /\ smaps.op = "diff"
    /\ smaps.inter.count >= 1
    /\ smaps.diff.count >= 1
    /\ StrMapKeys(smaps.b) \ StrMapKeys(smaps.a) # {}
    /\ \E k \in StrMapKeys(smaps.inter) :
           StrChunkMap_Get(smaps.a, k) # StrChunkMap_Get(smaps.b, k)


(***************************************************************************)
(*                 The skirt is the outermost ring                         *)
(***************************************************************************)
\* The first and last row and column of the row-major grid of n x n vertices.
Ring(n) ==
    { i \in 0..(n * n - 1) : (i \div n) \in {0, n - 1} \/ (i % n) \in {0, n - 1} }

\* The vertex of the n x n grid next to vertex i of the ring, one step
\* towards the inside (diagonally for a corner).
Inward(i, n) ==
    LET x == i \div n
        y == i % n
        cx == IF x = 0 THEN 1 ELSE IF x = n - 1 THEN n - 2 ELSE x
        cy == IF y = 0 THEN 1 ELSE IF y = n - 1 THEN n - 2 ELSE y
    IN  cx * n + cy

\* C32: for every resolution >= 1 FixEdgeSkirts overwrites exactly the first
\* and last row and column of the (resolution + 4) x (resolution + 4)
\* row-major grid of GenerateInitialHeights, each of these vertices gets the
\* position and the normal of its inward neighbour in that grid, the other
\* vertices are left as generated, and every index read or written is below
\* the vertex count.
C32_SkirtIsOutermostRing ==
    (skirt.active /\ skirt.op = "fixed") =>
        LET n == GridSide(skirt.props.resolution)
            mesh == skirt.mesh
        IN  /\ mesh.written = Ring(n)
            /\ \A i \in Ring(n) :
                   /\ mesh.positions[i].base = Inward(i, n)
                   /\ mesh.normals[i] = Inward(i, n)
            /\ \A i \in (0..(n * n - 1)) \ Ring(n) :
                   /\ mesh.positions[i] = [base |-> i, shifts |-> <<>>]
                   /\ mesh.normals[i] = i
            /\ \A i \in mesh.written \cup mesh.read :
                   0 <= i /\ i < mesh.vertexCount

====
